---------------------------- MODULE Spec2Model ----------------------------
(***************************************************************************)
(* Exchange wrappers of gocryptotrader (Bitstamp, Gemini, ItBit, BTCC):    *)
(* the market-data path FetchTicker / UpdateTicker / FetchOrderbook /      *)
(* UpdateOrderbook over the process-wide ticker and order-book stores, and *)
(* the per-exchange request dispatcher with its two rate limiters.         *)
(*                                                                         *)
(* The wrappers are translated from the source files.  The packages they   *)
(* call (exchanges/ticker, exchanges/orderbook, exchanges/request) are not *)
(* among the source files; their operations are modelled from the          *)
(* specification's contracts (sections 3, 4.1 and 4.2).                    *)
(***************************************************************************)
EXTENDS Integers, Sequences, FiniteSets, TLC

(***************************************************************************)
(* Bounds of the model.                                                    *)
(***************************************************************************)
\* number of distinct upstream market states a venue may answer with
NumValues == 2
\* length of a rate window, in clock ticks
Window == 1
\* maximum number of calls a limiter admits per window
MaxRate == 2

\* longest deadline a caller sets, in clock ticks
MaxDeadline == 2

\* most bits set in a capability mask under examination
MaxBits == 2

\* the concurrent application callers (goroutines calling a wrapper)
Callers == {1, 2}
Values == 1..NumValues

(***************************************************************************)
(* Drivers and keys.                                                       *)
(***************************************************************************)
\* b.Name / g.Name / i.Name as set by SetDefaults
BitstampName == "Bitstamp"
GeminiName == "Gemini"
ItBitName == "ITBIT"
BTCCName == "BTCC"

Exchanges == {BitstampName, GeminiName, ItBitName, BTCCName}

\* faulty variant of SupportsREST: BTCC polls over REST like the others
SupportsRESTEverywhere(e) == e = e

\* Features.Supports.REST as set by SetDefaults
SupportsREST(e) == e # BTCCName

\* currency pairs the callers ask for
Pairs == {"BTCUSD", "LTCUSD"}

\* AssetTypes = []string{ticker.Spot}
Spot == "SPOT"
AssetTypes == {Spot}

\* (exchange name, currency pair, asset type)
Key(name, p, a) == <<name, p, a>>
Keys == Exchanges \X Pairs \X AssetTypes

Classes == {"auth", "unauth"}

(***************************************************************************)
(* SetDefaults: the Requester of an exchange owns two RateLimit instances, *)
(* one per call class, created by two separate NewRateLimit calls.  A      *)
(* limiter is identified by the pair (owner, class).                       *)
(***************************************************************************)
\* faulty variant of Requester: one RateLimit instance serves both classes
SharedRateLimit(e) == [auth |-> <<e, "unauth">>, unauth |-> <<e, "unauth">>]

Requester(e) == [auth |-> <<e, "auth">>, unauth |-> <<e, "unauth">>]

Limiters == Exchanges \X Classes

LimiterOf(e, c) == Requester(e)[c]

(***************************************************************************)
(* Venue responses.  An upstream market state v determines what the venue  *)
(* answers; every field differs from the others so that a swapped or       *)
(* dropped field shows.                                                    *)
(***************************************************************************)
TickResponse(v) ==
    [Ask |-> 100 * v + 1, Bid |-> 100 * v, Last |-> 100 * v + 2,
     High |-> 100 * v + 9, Low |-> 100 * v - 9, Volume |-> 7 * v]

\* var tickerPrice ticker.Price
EmptyPrice ==
    [Pair |-> "", Ask |-> 0, Bid |-> 0, Last |-> 0, High |-> 0, Low |-> 0,
     Volume |-> 0]

\* the field mapping of UpdateTicker, per driver
BitstampPrice(p, tick) ==
    [Pair |-> p, Ask |-> tick.Ask, Bid |-> tick.Bid, Low |-> tick.Low,
     Last |-> tick.Last, Volume |-> tick.Volume, High |-> tick.High]

GeminiPrice(p, tick) ==
    [Pair |-> p, Ask |-> tick.Ask, Bid |-> tick.Bid, Last |-> tick.Last,
     Volume |-> tick.Volume, High |-> 0, Low |-> 0]

ItBitPrice(p, tick) ==
    [Pair |-> p, Ask |-> tick.Ask, Bid |-> tick.Bid, Last |-> tick.Last,
     High |-> tick.High, Low |-> tick.Low, Volume |-> tick.Volume]

TickerPrice(e, p, tick) ==
    CASE e = BitstampName -> BitstampPrice(p, tick)
      [] e = GeminiName -> GeminiPrice(p, tick)
      [] OTHER -> ItBitPrice(p, tick)

(***************************************************************************)
(* Order books.  Bitstamp and Gemini receive numeric levels; ItBit         *)
(* receives each level as a pair of decimal strings, modelled as sequences *)
(* of characters, and parses them with strconv.ParseFloat.                 *)
(***************************************************************************)
Level(price, amount) == [Price |-> price, Amount |-> amount]

\* the venue's book in market state v: two bid levels, two ask levels
BookResponse(v) ==
    [Bids |-> <<Level(100 * v, 1), Level(100 * v - 1, 2)>>,
     Asks |-> <<Level(100 * v + 1, 3), Level(100 * v + 2, 4)>>]

DigitChars == <<"0", "1", "2", "3", "4", "5", "6", "7", "8", "9">>

RECURSIVE FormatInt(_)
\* the decimal string of a natural number, as the venue writes it
FormatInt(n) ==
    IF n < 10 THEN <<DigitChars[n + 1]>>
    ELSE Append(FormatInt(n \div 10), DigitChars[(n % 10) + 1])

DigitValue(c) == CHOOSE d \in 0..9 : DigitChars[d + 1] = c

IsDigit(c) == \E d \in 0..9 : DigitChars[d + 1] = c

RECURSIVE ParseDigits(_)
ParseDigits(s) ==
    IF s = <<>> THEN 0
    ELSE 10 * ParseDigits(SubSeq(s, 1, Len(s) - 1)) + DigitValue(s[Len(s)])

\* strconv.ParseFloat(s, 64): the value and whether err != nil; a string
\* that is no number yields 0 and an error
ParseFloat(s) ==
    IF s # <<>> /\ \A i \in 1..Len(s) : IsDigit(s[i])
    THEN [val |-> ParseDigits(s), err |-> FALSE]
    ELSE [val |-> 0, err |-> TRUE]

\* ItBit's wire form of a book: each level is [price string, amount string]
ItBitBookResponse(v) ==
    [Bids |-> [x \in 1..Len(BookResponse(v).Bids) |->
                 <<FormatInt(BookResponse(v).Bids[x].Price),
                   FormatInt(BookResponse(v).Bids[x].Amount)>>],
     Asks |-> [x \in 1..Len(BookResponse(v).Asks) |->
                 <<FormatInt(BookResponse(v).Asks[x].Price),
                   FormatInt(BookResponse(v).Asks[x].Amount)>>]]

\* var orderBook orderbook.Base
EmptyBook == [Bids |-> <<>>, Asks |-> <<>>]

\* faulty variant of NumericBook: each level is put in front of the levels
\* copied so far
NumericBookPrepends(orderbookNew) ==
    [Bids |-> [x \in 1..Len(orderbookNew.Bids) |->
                 [Amount |-> orderbookNew.Bids[Len(orderbookNew.Bids) + 1 - x].Amount,
                  Price |-> orderbookNew.Bids[Len(orderbookNew.Bids) + 1 - x].Price]],
     Asks |-> [x \in 1..Len(orderbookNew.Asks) |->
                 [Amount |-> orderbookNew.Asks[Len(orderbookNew.Asks) + 1 - x].Amount,
                  Price |-> orderbookNew.Asks[Len(orderbookNew.Asks) + 1 - x].Price]]]

\* the two append loops of Bitstamp.UpdateOrderbook / Gemini.UpdateOrderbook
NumericBook(orderbookNew) ==
    [Bids |-> [x \in 1..Len(orderbookNew.Bids) |->
                 [Amount |-> orderbookNew.Bids[x].Amount,
                  Price |-> orderbookNew.Bids[x].Price]],
     Asks |-> [x \in 1..Len(orderbookNew.Asks) |->
                 [Amount |-> orderbookNew.Asks[x].Amount,
                  Price |-> orderbookNew.Asks[x].Price]]]

\* strings of the venue that strconv.ParseFloat rejects: the empty string,
\* a word, digits followed by a letter
BadStrings == {<<>>, <<"x">>, <<"1", "x">>}

\* one field of one level of an ItBit answer, and the string it has instead
\* of a number: field 1 is data[0], the price, field 2 is data[1], the amount
Garbles(orderbookNew) ==
    {g \in [side : {"Bids", "Asks"}, x : 1..2, field : 1..2, text : BadStrings] :
        g.x <= Len(orderbookNew[g.side])}

\* the venue's answer with that one field malformed
Garbled(orderbookNew, g) ==
    [orderbookNew EXCEPT ![g.side][g.x][g.field] = g.text]

\* faulty variant of ItBitBook: a level with a parse error is left out
ItBitBookSkips(orderbookNew) ==
    [Bids |-> SelectSeq([x \in 1..Len(orderbookNew.Bids) |->
                 [Amount |-> ParseFloat(orderbookNew.Bids[x][2]).val,
                  Price |-> ParseFloat(orderbookNew.Bids[x][1]).val]],
                 LAMBDA l : l.Amount # 0 /\ l.Price # 0),
     Asks |-> SelectSeq([x \in 1..Len(orderbookNew.Asks) |->
                 [Amount |-> ParseFloat(orderbookNew.Asks[x][2]).val,
                  Price |-> ParseFloat(orderbookNew.Asks[x][1]).val]],
                 LAMBDA l : l.Amount # 0 /\ l.Price # 0)]

\* the two parse-and-append loops of ItBit.UpdateOrderbook: a parse error
\* is logged and the zero value is appended
ItBitBook(orderbookNew) ==
    [Bids |-> [x \in 1..Len(orderbookNew.Bids) |->
                 [Amount |-> ParseFloat(orderbookNew.Bids[x][2]).val,
                  Price |-> ParseFloat(orderbookNew.Bids[x][1]).val]],
     Asks |-> [x \in 1..Len(orderbookNew.Asks) |->
                 [Amount |-> ParseFloat(orderbookNew.Asks[x][2]).val,
                  Price |-> ParseFloat(orderbookNew.Asks[x][1]).val]]]

\* the book UpdateOrderbook builds from the venue's answer in market state v
OrderBook(e, v) ==
    IF e = ItBitName THEN ItBitBook(ItBitBookResponse(v))
    ELSE NumericBook(BookResponse(v))

(***************************************************************************)
(* Withdrawal capabilities (exchange_types.go).  A uint32 is modelled as   *)
(* the set of the positions, 0 to 31, of its one bits: 0 is the empty set, *)
(* 1 << k is {k}, | is union and & is intersection.                        *)
(***************************************************************************)
BitPositions == 0..31

Shl1(k) == {k}
BitOr(a, b) == a \cup b
BitAnd(a, b) == a \cap b

NoAPIWithdrawalMethods == {}
NoAPIWithdrawalMethodsText == "NONE, WEBSITE ONLY"
UnknownWithdrawalTypeText == "UNKNOWN"

AutoWithdrawCrypto == Shl1(0)
AutoWithdrawCryptoWithAPIPermission == Shl1(1)
AutoWithdrawCryptoWithSetup == Shl1(2)
WithdrawCryptoWith2FA == Shl1(3)
WithdrawCryptoWithSMS == Shl1(4)
WithdrawCryptoWithEmail == Shl1(5)
WithdrawCryptoWithWebsiteApproval == Shl1(6)
WithdrawCryptoWithAPIPermission == Shl1(7)
\* faulty variant of AutoWithdrawFiat: renumbered onto the bit of
\* WithdrawCryptoWithAPIPermission
AutoWithdrawFiatRenumbered == Shl1(7)

AutoWithdrawFiat == Shl1(8)
AutoWithdrawFiatWithAPIPermission == Shl1(9)
AutoWithdrawFiatWithSetup == Shl1(10)
WithdrawFiatWith2FA == Shl1(11)
WithdrawFiatWithSMS == Shl1(12)
WithdrawFiatWithEmail == Shl1(13)
WithdrawFiatWithWebsiteApproval == Shl1(14)
WithdrawFiatWithAPIPermission == Shl1(15)
WithdrawCryptoViaWebsiteOnly == Shl1(16)
WithdrawFiatViaWebsiteOnly == Shl1(17)

\* the withdrawal flags with their ...Text constants, in the order of their
\* bits
WithdrawFlags ==
    <<[flag |-> AutoWithdrawCrypto,
       text |-> "AUTO WITHDRAW CRYPTO"],
      [flag |-> AutoWithdrawCryptoWithAPIPermission,
       text |-> "AUTO WITHDRAW CRYPTO WITH API PERMISSION"],
      [flag |-> AutoWithdrawCryptoWithSetup,
       text |-> "AUTO WITHDRAW CRYPTO WITH SETUP"],
      [flag |-> WithdrawCryptoWith2FA,
       text |-> "WITHDRAW CRYPTO WITH 2FA"],
      [flag |-> WithdrawCryptoWithSMS,
       text |-> "WITHDRAW CRYPTO WITH SMS"],
      [flag |-> WithdrawCryptoWithEmail,
       text |-> "WITHDRAW CRYPTO WITH EMAIL"],
      [flag |-> WithdrawCryptoWithWebsiteApproval,
       text |-> "WITHDRAW CRYPTO WITH WEBSITE APPROVAL"],
      [flag |-> WithdrawCryptoWithAPIPermission,
       text |-> "WITHDRAW CRYPTO WITH API PERMISSION"],
      [flag |-> AutoWithdrawFiat,
       text |-> "AUTO WITHDRAW FIAT"],
      [flag |-> AutoWithdrawFiatWithAPIPermission,
       text |-> "AUTO WITHDRAW FIAT WITH API PERMISSION"],
      [flag |-> AutoWithdrawFiatWithSetup,
       text |-> "AUTO WITHDRAW FIAT WITH SETUP"],
      [flag |-> WithdrawFiatWith2FA,
       text |-> "WITHDRAW FIAT WITH 2FA"],
      [flag |-> WithdrawFiatWithSMS,
       text |-> "WITHDRAW FIAT WITH SMS"],
      [flag |-> WithdrawFiatWithEmail,
       text |-> "WITHDRAW FIAT WITH EMAIL"],
      [flag |-> WithdrawFiatWithWebsiteApproval,
       text |-> "WITHDRAW FIAT WITH WEBSITE APPROVAL"],
      [flag |-> WithdrawFiatWithAPIPermission,
       text |-> "WITHDRAW FIAT WITH API PERMISSION"],
      [flag |-> WithdrawCryptoViaWebsiteOnly,
       text |-> "WITHDRAW CRYPTO VIA WEBSITE ONLY"],
      [flag |-> WithdrawFiatViaWebsiteOnly,
       text |-> "WITHDRAW FIAT VIA WEBSITE ONLY"]>>

\* APIWithdrawPermissions as set by SetDefaults
APIWithdrawPermissions(e) ==
    CASE e = BitstampName -> BitOr(AutoWithdrawCrypto, AutoWithdrawFiat)
      [] e = GeminiName ->
           BitOr(BitOr(AutoWithdrawCryptoWithAPIPermission, AutoWithdrawCryptoWithSetup),
                 WithdrawFiatViaWebsiteOnly)
      [] e = ItBitName -> BitOr(WithdrawCryptoViaWebsiteOnly, WithdrawFiatViaWebsiteOnly)
      [] OTHER -> NoAPIWithdrawalMethods

\* Base.GetWithdrawPermissions() returns the field
GetWithdrawPermissions(e) == APIWithdrawPermissions(e)

\* GetWithdrawCapabilities returns GetWithdrawPermissions()
GetWithdrawCapabilities(e) == GetWithdrawPermissions(e)

\* supports(mask, flag): the flag's bits are set in the mask
Supports(m, flag) == BitAnd(m, flag) = flag

\* the flags whose bit is bit i, in the order of the enumeration
FlagsAt(i) == {x \in 1..Len(WithdrawFlags) : WithdrawFlags[x].flag = Shl1(i)}

\* the label of bit i: the text of the first flag on that bit, or the
\* unknown sentinel when no flag is
LabelOf(i) ==
    IF FlagsAt(i) = {} THEN UnknownWithdrawalTypeText
    ELSE WithdrawFlags[CHOOSE x \in FlagsAt(i) : \A y \in FlagsAt(i) : x <= y].text

RECURSIVE DecodeFrom(_, _)
\* the labels of the bits of m from bit i upwards
DecodeFrom(m, i) ==
    IF i \notin BitPositions THEN <<>>
    ELSE (IF BitAnd(m, Shl1(i)) # {} THEN <<LabelOf(i)>> ELSE <<>>)
             \o DecodeFrom(m, i + 1)

\* faulty variant of Decode: no sentinel, a mask of zero decodes to no label
DecodeNoSentinel(m) == DecodeFrom(m, 0)

\* decode(mask): the labels of the active flags in the order of their bits;
\* a mask of zero decodes to the sentinel label
Decode(m) ==
    IF DecodeFrom(m, 0) = <<>> THEN <<NoAPIWithdrawalMethodsText>>
    ELSE DecodeFrom(m, 0)

\* the flag a label stands for: the first flag with that text; the
\* sentinels stand for no flag
FlagOf(label) ==
    IF \E x \in 1..Len(WithdrawFlags) : WithdrawFlags[x].text = label
    THEN WithdrawFlags[CHOOSE x \in 1..Len(WithdrawFlags) :
                          /\ WithdrawFlags[x].text = label
                          /\ \A y \in 1..Len(WithdrawFlags) :
                                WithdrawFlags[y].text = label => x <= y].flag
    ELSE NoAPIWithdrawalMethods

RECURSIVE EncodeButLast(_)
\* faulty variant of Encode: the loop stops one label short
EncodeButLast(ls) ==
    IF Len(ls) <= 1 THEN NoAPIWithdrawalMethods
    ELSE BitOr(FlagOf(Head(ls)), EncodeButLast(Tail(ls)))

RECURSIVE Encode(_)
\* the flags of the labels or-ed together
Encode(ls) ==
    IF ls = <<>> THEN NoAPIWithdrawalMethods
    ELSE BitOr(FlagOf(Head(ls)), Encode(Tail(ls)))

RECURSIVE MasksUpTo(_)
\* the masks with at most k bits set
MasksUpTo(k) ==
    IF k = 0 THEN {NoAPIWithdrawalMethods}
    ELSE MasksUpTo(k - 1)
           \cup {BitOr(m, Shl1(i)) : m \in MasksUpTo(k - 1), i \in BitPositions}

\* the masks examined: every mask of at most MaxBits bits, and the
\* drivers' own
Masks == MasksUpTo(MaxBits) \cup {APIWithdrawPermissions(e) : e \in Exchanges}

(***************************************************************************)
(* State.                                                                  *)
(***************************************************************************)
VARIABLES
    Tickers,     \* ticker store: key -> ticker.Price, for the keys present
    Orderbooks,  \* order-book store: key -> orderbook.Base, for the keys present
    limit,       \* limiter -> [age: ticks since its window began, requests]
    admitLog,    \* (exchange, class) -> ticks since each of its admissions of the
                 \* last Window ticks (history)
    pc,          \* caller -> where the caller is in its call
    call,        \* caller -> the call in progress: [op, exch, pair]
    tick,        \* caller -> the market state its upstream request returned
    ret,         \* caller -> what its call returned: [val, err]
    sent,        \* caller -> upstream requests its call has sent (history)
    raced,       \* caller -> another caller wrote its key after its own write
                 \* and before its read back (history)
    deadline,    \* caller -> ticks left of the deadline of its call, or NoDeadline
    garble,      \* caller -> which field of the venue's answer was malformed
    mask,        \* the capability mask under examination
    labels,      \* the labels the mask decoded to
    encoded,     \* the mask re-encoded from the labels
    capPc,       \* how far the examination of the mask has come
    base,        \* driver -> its exchange.Base: the fields Setup and Run touch
    wg,          \* the counter of the WaitGroup the drivers are started with
    thread,      \* driver -> where Start and the goroutine it spawns are
    exited,      \* log.Fatal has ended the process
    lastSetup    \* the last call of Setup: [exch, cfg], or NoSetup

\* the state of the capability model
capVars == <<mask, labels, encoded, capPc>>

\* the state of the drivers' lifecycle
lifeVars == <<base, wg, thread, exited, lastSetup>>

\* the state of the market-data path that only some scenarios use
auxVars == <<deadline, garble, capVars, lifeVars>>

vars == <<Tickers, Orderbooks, limit, admitLog, pc, call, tick, ret, sent, raced,
          deadline, garble, mask, labels, encoded, capPc,
          base, wg, thread, exited, lastSetup>>

Ops == {"FetchTicker", "UpdateTicker", "FetchOrderbook", "UpdateOrderbook",
        "GetExchangeAccountInfo"}

TickerOps == {"FetchTicker", "UpdateTicker"}
OrderbookOps == {"FetchOrderbook", "UpdateOrderbook"}
FetchOps == {"FetchTicker", "FetchOrderbook"}

NoCall == [op |-> "", exch |-> "", pair |-> ""]
NoRet == [val |-> <<>>, err |-> ""]

\* error values
Nil == "nil"
ErrUpstream == "upstream error"
ErrNotFound == "not found"
ErrRESTNotSupported == "REST NOT SUPPORTED"
ErrTimeout == "timeout"
ErrNotYetImplemented == "not yet implemented"
ErrNotSupportedOnExchange == "not supported on exchange"
ErrTradeHistory == "trade history not yet implemented"

\* Base.GetName() returns the Name field
GetName(e) == e

\* a caller without a deadline: it waits as long as its call takes
NoDeadline == -1

\* a venue answer whose fields are all well formed
NoGarble == <<>>

\* the call of caller c has begun and has not returned
Pending(c) == pc[c] \in {"admit", "inflight", "readback"}

\* the key a call is about
KeyOf(c) == Key(call[c].exch, call[c].pair, Spot)

(***************************************************************************)
(* The stores (exchanges/ticker, exchanges/orderbook), from the contract   *)
(* of section 4.2: get reads one key, put overwrites one key atomically.   *)
(***************************************************************************)
\* ticker.GetTicker(name, p, assetType) -> (ticker.Price, error)
GetTicker(name, p, a) ==
    IF Key(name, p, a) \in DOMAIN Tickers
    THEN [val |-> Tickers[Key(name, p, a)], err |-> Nil]
    ELSE [val |-> EmptyPrice, err |-> ErrNotFound]

\* ticker.ProcessTicker(name, p, price, assetType): the store afterwards
ProcessTicker(name, p, price, a) ==
    [k \in DOMAIN Tickers \cup {Key(name, p, a)} |->
        IF k = Key(name, p, a) THEN price ELSE Tickers[k]]

\* orderbook.GetOrderbook(name, p, assetType) -> (orderbook.Base, error)
GetOrderbook(name, p, a) ==
    IF Key(name, p, a) \in DOMAIN Orderbooks
    THEN [val |-> Orderbooks[Key(name, p, a)], err |-> Nil]
    ELSE [val |-> EmptyBook, err |-> ErrNotFound]

\* orderbook.ProcessOrderbook(name, p, book, assetType): the store afterwards
ProcessOrderbook(name, p, book, a) ==
    [k \in DOMAIN Orderbooks \cup {Key(name, p, a)} |->
        IF k = Key(name, p, a) THEN book ELSE Orderbooks[k]]

(***************************************************************************)
(* The rate limiter (exchanges/request), from the contract of section 4.1: *)
(* a counter bound to a fixed window; the first admission after a window   *)
(* has run out begins the next window.                                     *)
(***************************************************************************)
\* request.NewRateLimit(d, rate): no window begun, nothing admitted
NewRateLimit == [age |-> Window, requests |-> 0]

\* faulty variant of WindowOver: a window that was used never runs out
WindowStuck(l) == limit[l].requests = 0

\* the window of limiter l has run out (or none has begun)
WindowOver(l) == limit[l].age >= Window

\* faulty variant of HasSlot: off by one, it still has a slot when MaxRate
\* calls were admitted in the window
HasSlotOffByOne(l) == WindowOver(l) \/ limit[l].requests <= MaxRate

\* whether limiter l has a slot for one more call now
HasSlot(l) == WindowOver(l) \/ limit[l].requests < MaxRate

\* limiter l after admitting one call
Admitted(l) ==
    IF WindowOver(l) THEN [age |-> 0, requests |-> 1]
    ELSE [limit[l] EXCEPT !.requests = @ + 1]

\* the call class of an operation's upstream request
ClassOf(op) == IF op = "GetExchangeAccountInfo" THEN "auth" ELSE "unauth"

\* the limiter the pending request of caller c goes through
LimiterFor(c) == LimiterOf(call[c].exch, ClassOf(call[c].op))

\* API.Endpoints.URLDefault as SetDefaults sets it; BTCC's sets none
URLDefault(e) ==
    CASE e = BitstampName -> "bitstampAPIURL"
      [] e = GeminiName -> "geminiAPIURL"
      [] e = ItBitName -> "itbitAPIURL"
      [] OTHER -> ""

geminiSandboxAPIURL == "geminiSandboxAPIURL"

\* exchange.Base of driver e after SetDefaults: the fields Setup and Run
\* touch, and the capability mask
SetDefaults(e) ==
    [Enabled |-> FALSE, URL |-> URLDefault(e), APIKey |-> "",
     EnabledPairs |-> {}, AvailablePairs |-> {}, Websocket |-> FALSE,
     APIWithdrawPermissions |-> APIWithdrawPermissions(e)]

\* config.ExchangeConfig: the configurations Setup is called with
ExchangeConfigs ==
    [Enabled : BOOLEAN, UseSandbox : BOOLEAN, Websocket : BOOLEAN,
     APIKey : {"key"}, EnabledPairs : {{"BTCUSD"}, {"BTCCNY"}}]

NoSetup == [exch |-> "", cfg |-> <<>>]

Init ==
    /\ Tickers = <<>>
    /\ Orderbooks = <<>>
    /\ limit = [l \in Limiters |-> NewRateLimit]
    /\ admitLog = [l \in Limiters |-> <<>>]
    /\ pc = [c \in Callers |-> "idle"]
    /\ call = [c \in Callers |-> NoCall]
    /\ tick = [c \in Callers |-> 0]
    /\ ret = [c \in Callers |-> NoRet]
    /\ sent = [c \in Callers |-> 0]
    /\ raced = [c \in Callers |-> FALSE]
    /\ deadline = [c \in Callers |-> NoDeadline]
    /\ garble = [c \in Callers |-> NoGarble]
    /\ mask = {}
    /\ labels = <<>>
    /\ encoded = {}
    /\ capPc = "unset"
    /\ base = [e \in Exchanges |-> SetDefaults(e)]
    /\ wg = 0
    /\ thread = [e \in Exchanges |-> "none"]
    /\ exited = FALSE
    /\ lastSetup = NoSetup

(***************************************************************************)
(* Steps of a call.  A caller is idle, waiting for admission ("admit"),    *)
(* waiting for the venue's answer ("inflight"), between its write to the   *)
(* store and its read back ("readback"), or returned ("done").             *)
(***************************************************************************)
\* caller c begins call [op, e, p] and goes on to its upstream request
Begin(c, op, e, p) ==
    /\ call' = [call EXCEPT ![c] = [op |-> op, exch |-> e, pair |-> p]]
    /\ pc' = [pc EXCEPT ![c] = "admit"]
    /\ UNCHANGED <<Tickers, Orderbooks, limit, admitLog, tick, ret, sent,
                   raced, auxVars>>

\* caller c's call [op, e, p] returns (val, err) without an upstream request
ReturnAtOnce(c, op, e, p, val, err) ==
    /\ call' = [call EXCEPT ![c] = [op |-> op, exch |-> e, pair |-> p]]
    /\ pc' = [pc EXCEPT ![c] = "done"]
    /\ ret' = [ret EXCEPT ![c] = [val |-> val, err |-> err]]
    /\ UNCHANGED <<Tickers, Orderbooks, limit, admitLog, tick, sent, raced,
                   auxVars>>

\* caller c's call in progress returns (val, err)
ReturnWith(c, val, err) ==
    /\ pc' = [pc EXCEPT ![c] = "done"]
    /\ ret' = [ret EXCEPT ![c] = [val |-> val, err |-> err]]

\* faulty variant of UpdateTicker: it returns the stored ticker when there
\* is one and asks the venue only when there is none
UpdateTickerIfAbsent(c, e, p) ==
    /\ pc[c] = "idle"
    /\ IF SupportsREST(e)
       THEN IF GetTicker(GetName(e), p, Spot).err # Nil
            THEN Begin(c, "UpdateTicker", e, p)
            ELSE ReturnAtOnce(c, "UpdateTicker", e, p,
                              GetTicker(GetName(e), p, Spot).val, Nil)
       ELSE ReturnAtOnce(c, "UpdateTicker", e, p, EmptyPrice, ErrRESTNotSupported)

\* UpdateTicker called directly: it always asks the venue
UpdateTicker(c, e, p) ==
    /\ pc[c] = "idle"
    /\ IF SupportsREST(e)
       THEN Begin(c, "UpdateTicker", e, p)
       ELSE ReturnAtOnce(c, "UpdateTicker", e, p, EmptyPrice, ErrRESTNotSupported)

\* faulty variant of FetchTicker: it refreshes without looking in the store
FetchTickerAlwaysRefresh(c, e, p) ==
    /\ pc[c] = "idle"
    /\ IF SupportsREST(e)
       THEN Begin(c, "FetchTicker", e, p)
       ELSE ReturnAtOnce(c, "FetchTicker", e, p, EmptyPrice, ErrRESTNotSupported)

\* faulty variant of FetchTicker: it waits while any other call is under way,
\* as under one lock held across a whole call
FetchTickerSerialized(c, e, p) ==
    /\ pc[c] = "idle"
    /\ \A d \in Callers : pc[d] \notin {"admit", "inflight", "readback"}
    /\ IF SupportsREST(e)
       THEN IF GetTicker(GetName(e), p, Spot).err # Nil
            THEN Begin(c, "FetchTicker", e, p)
            ELSE ReturnAtOnce(c, "FetchTicker", e, p,
                              GetTicker(GetName(e), p, Spot).val, Nil)
       ELSE ReturnAtOnce(c, "FetchTicker", e, p, EmptyPrice, ErrRESTNotSupported)

\* FetchTicker: the stored ticker if there is one, else UpdateTicker
FetchTicker(c, e, p) ==
    /\ pc[c] = "idle"
    /\ IF SupportsREST(e)
       THEN IF GetTicker(GetName(e), p, Spot).err # Nil
            THEN Begin(c, "FetchTicker", e, p)
            ELSE ReturnAtOnce(c, "FetchTicker", e, p,
                              GetTicker(GetName(e), p, Spot).val, Nil)
       ELSE ReturnAtOnce(c, "FetchTicker", e, p, EmptyPrice, ErrRESTNotSupported)

\* UpdateOrderbook called directly: it always asks the venue
UpdateOrderbook(c, e, p) ==
    /\ pc[c] = "idle"
    /\ IF SupportsREST(e)
       THEN Begin(c, "UpdateOrderbook", e, p)
       ELSE ReturnAtOnce(c, "UpdateOrderbook", e, p, EmptyBook, ErrRESTNotSupported)

\* FetchOrderbook: the stored book if there is one, else UpdateOrderbook
FetchOrderbook(c, e, p) ==
    /\ pc[c] = "idle"
    /\ IF SupportsREST(e)
       THEN IF GetOrderbook(GetName(e), p, Spot).err # Nil
            THEN Begin(c, "FetchOrderbook", e, p)
            ELSE ReturnAtOnce(c, "FetchOrderbook", e, p,
                              GetOrderbook(GetName(e), p, Spot).val, Nil)
       ELSE ReturnAtOnce(c, "FetchOrderbook", e, p, EmptyBook, ErrRESTNotSupported)

\* the order and funds operations no driver implements
UnimplementedOps ==
    {"SubmitExchangeOrder", "ModifyExchangeOrder", "CancelExchangeOrder",
     "CancelAllExchangeOrders", "GetExchangeOrderInfo", "GetExchangeDepositAddress",
     "WithdrawCryptoExchangeFunds", "WithdrawFiatExchangeFunds",
     "WithdrawFiatExchangeFundsToInternationalBank"}

\* var orderDetail exchange.OrderDetail
EmptyOrderDetail ==
    [Exchange |-> "", ID |-> 0, BaseCurrency |-> "", QuoteCurrency |-> "",
     OrderSide |-> "", OrderType |-> "", CreationTime |-> 0, Status |-> "",
     Price |-> 0, Amount |-> 0, OpenVolume |-> 0]

\* the values an unimplemented operation returns beside its error, as a
\* tuple: an order id of 0, no value at all, the empty order detail, or the
\* empty string
ZeroValue(op) ==
    CASE op \in {"SubmitExchangeOrder", "ModifyExchangeOrder"} -> <<0>>
      [] op \in {"CancelExchangeOrder", "CancelAllExchangeOrders"} -> <<>>
      [] op = "GetExchangeOrderInfo" -> <<EmptyOrderDetail>>
      [] OTHER -> <<"">>

\* faulty variant of NotYetImplemented: SubmitExchangeOrder sends a request
\* to the venue
NotYetImplementedSubmits(c, op, e, p) ==
    /\ pc[c] = "idle"
    /\ op \in UnimplementedOps
    /\ IF op = "SubmitExchangeOrder"
       THEN Begin(c, op, e, p)
       ELSE ReturnAtOnce(c, op, e, p, ZeroValue(op), ErrNotYetImplemented)

\* SubmitExchangeOrder .. WithdrawFiatExchangeFundsToInternationalBank, the
\* same in the four drivers: return the zero value and a new error, whatever
\* the arguments
NotYetImplemented(c, op, e, p) ==
    /\ pc[c] = "idle"
    /\ op \in UnimplementedOps
    /\ ReturnAtOnce(c, op, e, p, ZeroValue(op), ErrNotYetImplemented)

\* var response exchange.AccountInfo
EmptyAccountInfo == [ExchangeName |-> "", Currencies |-> <<>>]

\* GetExchangeAccountInfo: ItBit answers from its name alone, Bitstamp and
\* Gemini ask the venue for the balances (an authenticated request)
GetExchangeAccountInfo(c, e) ==
    /\ pc[c] = "idle"
    /\ CASE e = BTCCName ->
              ReturnAtOnce(c, "GetExchangeAccountInfo", e, "",
                           EmptyAccountInfo, ErrRESTNotSupported)
         [] e = ItBitName ->
              ReturnAtOnce(c, "GetExchangeAccountInfo", e, "",
                           [ExchangeName |-> GetName(e), Currencies |-> <<>>], Nil)
         [] OTHER -> Begin(c, "GetExchangeAccountInfo", e, "")

\* GetExchangeFundTransferHistory: a nil slice and an error, in every driver
GetExchangeFundTransferHistory(c, e) ==
    /\ pc[c] = "idle"
    /\ IF e = BTCCName
       THEN ReturnAtOnce(c, "GetExchangeFundTransferHistory", e, "",
                         <<>>, ErrRESTNotSupported)
       ELSE ReturnAtOnce(c, "GetExchangeFundTransferHistory", e, "",
                         <<>>, ErrNotSupportedOnExchange)

\* GetExchangeHistory: a nil slice and an error, in every driver
GetExchangeHistory(c, e, p) ==
    /\ pc[c] = "idle"
    /\ IF e = BTCCName
       THEN ReturnAtOnce(c, "GetExchangeHistory", e, p, <<>>, ErrRESTNotSupported)
       ELSE ReturnAtOnce(c, "GetExchangeHistory", e, p, <<>>, ErrTradeHistory)

\* BTCC's websocket feed puts a ticker of market state v into the ticker
\* store under BTCC's key
FeedTicker(p, v) ==
    /\ Tickers' = ProcessTicker(BTCCName, p, ItBitPrice(p, TickResponse(v)), Spot)
    /\ UNCHANGED <<Orderbooks, limit, admitLog, pc, call, tick, ret, sent, raced,
                   auxVars>>

\* BTCC's websocket feed puts an order book of market state v into the
\* order-book store under BTCC's key
FeedOrderbook(p, v) ==
    /\ Orderbooks' = ProcessOrderbook(BTCCName, p, NumericBook(BookResponse(v)), Spot)
    /\ UNCHANGED <<Tickers, limit, admitLog, pc, call, tick, ret, sent, raced,
                   auxVars>>

\* the dispatcher admits the pending request of caller c: it blocks until
\* the limiter of the request's class has a slot, then sends the request
Admit(c) ==
    /\ pc[c] = "admit"
    /\ HasSlot(LimiterFor(c))
    /\ limit' = [limit EXCEPT ![LimiterFor(c)] = Admitted(LimiterFor(c))]
    /\ admitLog' = [admitLog EXCEPT
                       ![<<call[c].exch, ClassOf(call[c].op)>>] = Append(@, 0)]
    /\ sent' = [sent EXCEPT ![c] = @ + 1]
    /\ pc' = [pc EXCEPT ![c] = "inflight"]
    /\ UNCHANGED <<Tickers, Orderbooks, call, tick, ret, raced, auxVars>>

\* a caller gives the call it is about to make a deadline of d ticks
\* (section 4.1: admission takes an optional deadline)
SetDeadline(c, d) ==
    /\ pc[c] = "idle"
    /\ deadline[c] = NoDeadline
    /\ deadline' = [deadline EXCEPT ![c] = d]
    /\ UNCHANGED <<Tickers, Orderbooks, limit, admitLog, pc, call, tick, ret, sent,
                   raced, garble, capVars, lifeVars>>

\* the zero value a call returns beside an error
EmptyResult(op) ==
    IF op \in TickerOps THEN EmptyPrice
    ELSE IF op \in OrderbookOps THEN EmptyBook ELSE EmptyAccountInfo

\* faulty variant of AdmitTimeout: the request whose deadline ran out is
\* dropped, and the call returns the zero value with no error
AdmitTimeoutDrops(c) ==
    /\ pc[c] = "admit"
    /\ deadline[c] = 0
    /\ ReturnWith(c, EmptyResult(call[c].op), Nil)
    /\ UNCHANGED <<Tickers, Orderbooks, limit, admitLog, call, tick, sent, raced,
                   auxVars>>

\* the deadline of a request that waits for admission has run out: the
\* request is not sent and the call fails with Timeout
AdmitTimeout(c) ==
    /\ pc[c] = "admit"
    /\ deadline[c] = 0
    /\ ReturnWith(c, EmptyResult(call[c].op), ErrTimeout)
    /\ UNCHANGED <<Tickers, Orderbooks, limit, admitLog, call, tick, sent, raced,
                   auxVars>>

\* raced after caller c writes its key: c's own flag is cleared, and every
\* other caller that is between its write and its read back of the same key
\* of the same store has been raced
RacedBy(c) ==
    [d \in Callers |->
        IF d = c THEN FALSE
        ELSE raced[d] \/ ( /\ pc[d] = "readback"
                           /\ KeyOf(d) = KeyOf(c)
                           /\ (call[d].op \in TickerOps) = (call[c].op \in TickerOps) )]

\* what the venue does with a request: it fails, or answers in a market state
Fail == 0
Responses == {Fail} \cup Values

\* faulty variant of UpdateTickerResponse: on an error it stores the empty
\* ticker before returning the error
UpdateTickerResponsePoisons(c, r) ==
    /\ pc[c] = "inflight"
    /\ call[c].op \in TickerOps
    /\ IF r = Fail
       THEN /\ ReturnWith(c, EmptyPrice, ErrUpstream)
            /\ Tickers' = ProcessTicker(GetName(call[c].exch), call[c].pair,
                                        EmptyPrice, Spot)
            /\ UNCHANGED <<tick, raced>>
       ELSE /\ Tickers' = ProcessTicker(GetName(call[c].exch), call[c].pair,
                              TickerPrice(call[c].exch, call[c].pair, TickResponse(r)),
                              Spot)
            /\ tick' = [tick EXCEPT ![c] = r]
            /\ raced' = RacedBy(c)
            /\ pc' = [pc EXCEPT ![c] = "readback"]
            /\ UNCHANGED ret
    /\ UNCHANGED <<Orderbooks, limit, admitLog, call, sent, auxVars>>

\* faulty variant of UpdateTickerResponse: the ticker is stored under every
\* pair of the exchange
UpdateTickerResponseAllPairs(c, r) ==
    /\ pc[c] = "inflight"
    /\ call[c].op \in TickerOps
    /\ IF r = Fail
       THEN /\ ReturnWith(c, EmptyPrice, ErrUpstream)
            /\ UNCHANGED <<Tickers, tick, raced>>
       ELSE /\ Tickers' = [k \in DOMAIN Tickers \cup
                                  {Key(GetName(call[c].exch), p, Spot) : p \in Pairs} |->
                              IF k[1] = GetName(call[c].exch)
                              THEN TickerPrice(call[c].exch, call[c].pair, TickResponse(r))
                              ELSE Tickers[k]]
            /\ tick' = [tick EXCEPT ![c] = r]
            /\ raced' = RacedBy(c)
            /\ pc' = [pc EXCEPT ![c] = "readback"]
            /\ UNCHANGED ret
    /\ UNCHANGED <<Orderbooks, limit, admitLog, call, sent, auxVars>>

\* UpdateTicker from the venue's answer to its write: on an error it
\* returns the error, else it maps the fields and calls ProcessTicker
UpdateTickerResponse(c, r) ==
    /\ pc[c] = "inflight"
    /\ call[c].op \in TickerOps
    /\ IF r = Fail
       THEN /\ ReturnWith(c, EmptyPrice, ErrUpstream)
            /\ UNCHANGED <<Tickers, tick, raced>>
       ELSE /\ Tickers' = ProcessTicker(GetName(call[c].exch), call[c].pair,
                              TickerPrice(call[c].exch, call[c].pair, TickResponse(r)),
                              Spot)
            /\ tick' = [tick EXCEPT ![c] = r]
            /\ raced' = RacedBy(c)
            /\ pc' = [pc EXCEPT ![c] = "readback"]
            /\ UNCHANGED ret
    /\ UNCHANGED <<Orderbooks, limit, admitLog, call, sent, auxVars>>

\* faulty variant of UpdateTickerReturn: it reads back under another name
\* than the one UpdateTicker wrote under
UpdateTickerReturnOtherName(c) ==
    /\ pc[c] = "readback"
    /\ call[c].op \in TickerOps
    /\ ReturnWith(c, GetTicker("gemini", call[c].pair, Spot).val,
                     GetTicker("gemini", call[c].pair, Spot).err)
    /\ UNCHANGED <<Tickers, Orderbooks, limit, admitLog, call, tick, sent,
                   raced, auxVars>>

\* UpdateTicker's last line: return ticker.GetTicker(Name, p, assetType)
UpdateTickerReturn(c) ==
    /\ pc[c] = "readback"
    /\ call[c].op \in TickerOps
    /\ ReturnWith(c, GetTicker(call[c].exch, call[c].pair, Spot).val,
                     GetTicker(call[c].exch, call[c].pair, Spot).err)
    /\ UNCHANGED <<Tickers, Orderbooks, limit, admitLog, call, tick, sent,
                   raced, auxVars>>

\* faulty variant of UpdateOrderbookResponse: on an error it returns the
\* empty book and no error
UpdateOrderbookResponseSwallows(c, r) ==
    /\ pc[c] = "inflight"
    /\ call[c].op \in OrderbookOps
    /\ IF r = Fail
       THEN /\ ReturnWith(c, EmptyBook, Nil)
            /\ UNCHANGED <<Orderbooks, tick, raced>>
       ELSE /\ Orderbooks' = ProcessOrderbook(GetName(call[c].exch), call[c].pair,
                                 OrderBook(call[c].exch, r), Spot)
            /\ tick' = [tick EXCEPT ![c] = r]
            /\ raced' = RacedBy(c)
            /\ pc' = [pc EXCEPT ![c] = "readback"]
            /\ UNCHANGED ret
    /\ UNCHANGED <<Tickers, limit, admitLog, call, sent, auxVars>>

\* UpdateOrderbook from the venue's answer to its write: on an error it
\* returns the error, else it copies the levels and calls ProcessOrderbook
UpdateOrderbookResponse(c, r) ==
    /\ pc[c] = "inflight"
    /\ call[c].op \in OrderbookOps
    /\ IF r = Fail
       THEN /\ ReturnWith(c, EmptyBook, ErrUpstream)
            /\ UNCHANGED <<Orderbooks, tick, raced>>
       ELSE /\ Orderbooks' = ProcessOrderbook(GetName(call[c].exch), call[c].pair,
                                 OrderBook(call[c].exch, r), Spot)
            /\ tick' = [tick EXCEPT ![c] = r]
            /\ raced' = RacedBy(c)
            /\ pc' = [pc EXCEPT ![c] = "readback"]
            /\ UNCHANGED ret
    /\ UNCHANGED <<Tickers, limit, admitLog, call, sent, auxVars>>

\* ItBit.UpdateOrderbook from the venue's answer to its write, when one
\* field of the answer is no number: both loops run to their end and
\* ProcessOrderbook is called
UpdateOrderbookResponseMalformed(c, r, g) ==
    /\ pc[c] = "inflight"
    /\ call[c].op \in OrderbookOps
    /\ call[c].exch = ItBitName
    /\ r \in Values
    /\ g \in Garbles(ItBitBookResponse(r))
    /\ Orderbooks' = ProcessOrderbook(GetName(call[c].exch), call[c].pair,
                          ItBitBook(Garbled(ItBitBookResponse(r), g)), Spot)
    /\ tick' = [tick EXCEPT ![c] = r]
    /\ garble' = [garble EXCEPT ![c] = g]
    /\ raced' = RacedBy(c)
    /\ pc' = [pc EXCEPT ![c] = "readback"]
    /\ UNCHANGED <<Tickers, limit, admitLog, call, sent, ret, deadline, capVars,
                   lifeVars>>

\* UpdateOrderbook's last line: return orderbook.GetOrderbook(Name, p, assetType)
UpdateOrderbookReturn(c) ==
    /\ pc[c] = "readback"
    /\ call[c].op \in OrderbookOps
    /\ ReturnWith(c, GetOrderbook(call[c].exch, call[c].pair, Spot).val,
                     GetOrderbook(call[c].exch, call[c].pair, Spot).err)
    /\ UNCHANGED <<Tickers, Orderbooks, limit, admitLog, call, tick, sent,
                   raced, auxVars>>

\* the balances the venue reports in market state v
GeminiBalances(v) == <<[Currency |-> "BTC", Amount |-> v, Available |-> v - 1]>>

BitstampBalance(v) ==
    [BTCAvailable |-> v, BTCReserved |-> 1, XRPAvailable |-> 2 * v, XRPReserved |-> 2,
     USDAvailable |-> 3 * v, USDReserved |-> 3, EURAvailable |-> 4 * v, EURReserved |-> 4]

AccountCurrencyInfo(name, total, hold) ==
    [CurrencyName |-> name, TotalValue |-> total, Hold |-> hold]

\* the response GetExchangeAccountInfo builds from the balances
AccountInfo(e, v) ==
    IF e = GeminiName
    THEN [ExchangeName |-> GetName(e),
          Currencies |-> [i \in 1..Len(GeminiBalances(v)) |->
              AccountCurrencyInfo(GeminiBalances(v)[i].Currency,
                                  GeminiBalances(v)[i].Amount,
                                  GeminiBalances(v)[i].Available)]]
    ELSE [ExchangeName |-> GetName(e),
          Currencies |->
            <<AccountCurrencyInfo("BTC", BitstampBalance(v).BTCAvailable,
                                  BitstampBalance(v).BTCReserved),
              AccountCurrencyInfo("XRP", BitstampBalance(v).XRPAvailable,
                                  BitstampBalance(v).XRPReserved),
              AccountCurrencyInfo("USD", BitstampBalance(v).USDAvailable,
                                  BitstampBalance(v).USDReserved),
              AccountCurrencyInfo("EUR", BitstampBalance(v).EURAvailable,
                                  BitstampBalance(v).EURReserved)>>]

\* GetExchangeAccountInfo from the venue's answer to its return
AccountInfoResponse(c, r) ==
    /\ pc[c] = "inflight"
    /\ call[c].op = "GetExchangeAccountInfo"
    /\ IF r = Fail
       THEN ReturnWith(c, [ExchangeName |-> GetName(call[c].exch), Currencies |-> <<>>],
                       ErrUpstream)
       ELSE ReturnWith(c, AccountInfo(call[c].exch, r), Nil)
    /\ tick' = [tick EXCEPT ![c] = r]
    /\ UNCHANGED <<Tickers, Orderbooks, limit, admitLog, call, sent, raced,
                   auxVars>>

\* the caller takes the result and is free to call again
Return(c) ==
    /\ pc[c] = "done"
    /\ pc' = [pc EXCEPT ![c] = "idle"]
    /\ call' = [call EXCEPT ![c] = NoCall]
    /\ tick' = [tick EXCEPT ![c] = 0]
    /\ ret' = [ret EXCEPT ![c] = NoRet]
    /\ sent' = [sent EXCEPT ![c] = 0]
    /\ raced' = [raced EXCEPT ![c] = FALSE]
    /\ deadline' = [deadline EXCEPT ![c] = NoDeadline]
    /\ garble' = [garble EXCEPT ![c] = NoGarble]
    /\ UNCHANGED <<Tickers, Orderbooks, limit, admitLog, capVars, lifeVars>>

\* the admission log of a limiter one tick later: every entry is one tick
\* older, and the entries older than a window are dropped
RECURSIVE Aged(_)
Aged(log) ==
    IF log = <<>> THEN <<>>
    ELSE IF Head(log) + 1 >= Window THEN Aged(Tail(log))
         ELSE <<Head(log) + 1>> \o Aged(Tail(log))

\* one tick of the clock
Tick ==
    /\ \/ \E l \in Limiters : limit[l].age < Window \/ admitLog[l] # <<>>
       \/ \E c \in Callers : Pending(c) /\ deadline[c] > 0
    /\ limit' = [l \in Limiters |->
                   IF limit[l].age < Window
                   THEN [limit[l] EXCEPT !.age = @ + 1] ELSE limit[l]]
    /\ admitLog' = [l \in Limiters |-> Aged(admitLog[l])]
    /\ deadline' = [c \in Callers |->
                      IF Pending(c) /\ deadline[c] > 0
                      THEN deadline[c] - 1 ELSE deadline[c]]
    /\ UNCHANGED <<Tickers, Orderbooks, pc, call, tick, ret, sent, raced, garble,
                   capVars, lifeVars>>

\* the state of the market-data path
marketVars ==
    <<Tickers, Orderbooks, limit, admitLog, pc, call, tick, ret, sent, raced,
      deadline, garble>>

\* APIWithdrawPermissions is set to m
SetMask(m) ==
    /\ capPc = "unset"
    /\ mask' = m
    /\ capPc' = "set"
    /\ UNCHANGED <<labels, encoded>>
    /\ UNCHANGED <<marketVars, lifeVars>>

\* the mask is decoded to its labels
DecodeMask ==
    /\ capPc = "set"
    /\ labels' = Decode(mask)
    /\ capPc' = "decoded"
    /\ UNCHANGED <<marketVars, lifeVars, mask, encoded>>

\* the labels are encoded again
EncodeLabels ==
    /\ capPc = "decoded"
    /\ encoded' = Encode(labels)
    /\ capPc' = "encoded"
    /\ UNCHANGED <<marketVars, lifeVars, mask, labels>>

(***************************************************************************)
(* Lifecycle of a driver: Setup applies a configuration, Start spawns the  *)
(* goroutine that runs Run.  SetEnabled, SetupDefaults, WebsocketSetup and *)
(* UpdateCurrencies are methods of exchange.Base.                          *)
(***************************************************************************)
\* Base.SetEnabled(enabled)
SetEnabled(b, enabled) == [b EXCEPT !.Enabled = enabled]

\* Base.SetupDefaults(exch): the configuration is applied to the base
SetupDefaults(b, exch) ==
    [b EXCEPT !.Enabled = TRUE, !.APIKey = exch.APIKey,
              !.EnabledPairs = exch.EnabledPairs]

\* Base.WebsocketSetup(..., exch.Features.Enabled.Websocket, ...)
WebsocketSetup(b, exch) == [b EXCEPT !.Websocket = exch.Websocket]

\* the else branch of Setup when nothing fails: SetupDefaults, then the
\* sandbox URL (Gemini) or WebsocketSetup (Bitstamp, BTCC)
Configured(e, b, exch) ==
    CASE e = GeminiName ->
              IF exch.UseSandbox
              THEN [SetupDefaults(b, exch) EXCEPT !.URL = geminiSandboxAPIURL]
              ELSE SetupDefaults(b, exch)
      [] e \in {BitstampName, BTCCName} ->
              WebsocketSetup(SetupDefaults(b, exch), exch)
      [] OTHER -> SetupDefaults(b, exch)

\* faulty variant of Setup: the configuration is applied before the enabled
\* flag is looked at
SetupAppliesFirst(e, exch, ok) ==
    /\ ~exited
    /\ lastSetup' = [exch |-> e, cfg |-> exch]
    /\ IF ~ok
       THEN exited' = TRUE /\ UNCHANGED base
       ELSE /\ base' = [base EXCEPT ![e] =
                           IF exch.Enabled THEN Configured(e, @, exch)
                           ELSE SetEnabled(Configured(e, @, exch), FALSE)]
            /\ UNCHANGED exited
    /\ UNCHANGED <<marketVars, capVars, wg, thread>>

\* Setup(exch): a disabled configuration only disables the driver; an
\* enabled one is applied, and log.Fatal ends the process when
\* SetupDefaults or WebsocketSetup returns an error (ok is FALSE)
Setup(e, exch, ok) ==
    /\ ~exited
    /\ lastSetup' = [exch |-> e, cfg |-> exch]
    /\ IF ~exch.Enabled
       THEN /\ base' = [base EXCEPT ![e] = SetEnabled(@, FALSE)]
            /\ UNCHANGED exited
       ELSE IF ~ok
            THEN exited' = TRUE /\ UNCHANGED base
            ELSE /\ base' = [base EXCEPT ![e] = Configured(e, @, exch)]
                 /\ UNCHANGED exited
    /\ UNCHANGED <<marketVars, capVars, wg, thread>>

\* Start(wg), first statement: wg.Add(1)
Start(e) ==
    /\ ~exited
    /\ thread[e] = "none"
    /\ wg' = wg + 1
    /\ thread' = [thread EXCEPT ![e] = "added"]
    /\ UNCHANGED <<marketVars, capVars, base, exited, lastSetup>>

\* Start(wg), second statement: go func() { ... }(); Start returns
StartGo(e) ==
    /\ ~exited
    /\ thread[e] = "added"
    /\ thread' = [thread EXCEPT ![e] = "running"]
    /\ UNCHANGED <<marketVars, capVars, base, wg, exited, lastSetup>>

\* whether a list of pairs holds one in CNY
HasCNY(pairs) == "BTCCNY" \in pairs

\* Run of ItBit and of BTCC, which ask no venue: ItBit's only logs; BTCC's
\* turns CNY pairs into BTCUSD, unless the configuration cannot be read
\* (ok is FALSE)
Run(e, ok) ==
    /\ ~exited
    /\ e \in {ItBitName, BTCCName}
    /\ thread[e] = "running"
    /\ thread' = [thread EXCEPT ![e] = "returned"]
    /\ base' = IF e = BTCCName /\ ok
                  /\ (HasCNY(base[e].EnabledPairs) \/ HasCNY(base[e].AvailablePairs))
               THEN [base EXCEPT ![e].AvailablePairs = {"BTCUSD"},
                                 ![e].EnabledPairs = {"BTCUSD"}]
               ELSE base
    /\ UNCHANGED <<marketVars, capVars, wg, exited, lastSetup>>

\* Run of Bitstamp and of Gemini: GetTradingPairs / GetSymbols hands a
\* request to the dispatcher
RunRequest(e) ==
    /\ ~exited
    /\ e \in {BitstampName, GeminiName}
    /\ thread[e] = "running"
    /\ thread' = [thread EXCEPT ![e] = "admit"]
    /\ UNCHANGED <<marketVars, capVars, base, wg, exited, lastSetup>>

\* the dispatcher admits the request of Run: it blocks until the
\* unauthenticated limiter has a slot
RunAdmit(e) ==
    /\ ~exited
    /\ thread[e] = "admit"
    /\ HasSlot(LimiterOf(e, "unauth"))
    /\ limit' = [limit EXCEPT ![LimiterOf(e, "unauth")] =
                     Admitted(LimiterOf(e, "unauth"))]
    /\ admitLog' = [admitLog EXCEPT ![<<e, "unauth">>] = Append(@, 0)]
    /\ thread' = [thread EXCEPT ![e] = "inflight"]
    /\ UNCHANGED <<Tickers, Orderbooks, pc, call, tick, ret, sent, raced,
                   deadline, garble, capVars, base, wg, exited, lastSetup>>

\* Run of Bitstamp and of Gemini from the venue's answer to its end: an
\* error is logged, else UpdateCurrencies stores the pairs of the venue;
\* Run returns either way
RunResponse(e, r) ==
    /\ ~exited
    /\ thread[e] = "inflight"
    /\ thread' = [thread EXCEPT ![e] = "returned"]
    /\ base' = IF r = Fail THEN base
               ELSE [base EXCEPT ![e].AvailablePairs = Pairs]
    /\ UNCHANGED <<marketVars, capVars, wg, exited, lastSetup>>

\* the goroutine's last statement: wg.Done(); the goroutine ends
Done(e) ==
    /\ ~exited
    /\ thread[e] = "returned"
    /\ wg' = wg - 1
    /\ thread' = [thread EXCEPT ![e] = "done"]
    /\ UNCHANGED <<marketVars, capVars, base, exited, lastSetup>>

(***************************************************************************)
(* Specifications.  All share Init and the actions above; each lets the    *)
(* callers make the calls of one scenario.                                 *)
(***************************************************************************)
BTCUSD == "BTCUSD"

\* two callers on Bitstamp's ticker and order book of one pair
Next ==
    \/ \E c \in Callers : FetchTicker(c, BitstampName, BTCUSD)
    \/ \E c \in Callers : UpdateTicker(c, BitstampName, BTCUSD)
    \/ \E c \in Callers : FetchOrderbook(c, BitstampName, BTCUSD)
    \/ \E c \in Callers : UpdateOrderbook(c, BitstampName, BTCUSD)
    \/ \E c \in Callers : Admit(c)
    \/ \E c \in Callers, r \in Responses : UpdateTickerResponse(c, r)
    \/ \E c \in Callers : UpdateTickerReturn(c)
    \/ \E c \in Callers, r \in Responses : UpdateOrderbookResponse(c, r)
    \/ \E c \in Callers : UpdateOrderbookReturn(c)
    \/ \E c \in Callers : Return(c)
    \/ Tick

Spec == Init /\ [][Next]_vars

\* two callers on Gemini's tickers of two pairs
NextTicker ==
    \/ \E c \in Callers, p \in Pairs : FetchTicker(c, GeminiName, p)
    \/ \E c \in Callers, p \in Pairs : UpdateTicker(c, GeminiName, p)
    \/ \E c \in Callers : Admit(c)
    \/ \E c \in Callers, r \in Responses : UpdateTickerResponse(c, r)
    \/ \E c \in Callers : UpdateTickerReturn(c)
    \/ \E c \in Callers : Return(c)
    \/ Tick

SpecTicker == Init /\ [][NextTicker]_vars

\* two callers on ItBit's order books of two pairs
NextOrderbook ==
    \/ \E c \in Callers, p \in Pairs : FetchOrderbook(c, ItBitName, p)
    \/ \E c \in Callers, p \in Pairs : UpdateOrderbook(c, ItBitName, p)
    \/ \E c \in Callers : Admit(c)
    \/ \E c \in Callers, r \in Responses : UpdateOrderbookResponse(c, r)
    \/ \E c \in Callers : UpdateOrderbookReturn(c)
    \/ \E c \in Callers : Return(c)
    \/ Tick

SpecOrderbook == Init /\ [][NextOrderbook]_vars

\* a sequential run: one caller alone, on ItBit's tickers, Gemini's order
\* books and BTCC
Only == 1

NextSeq ==
    \/ \E e \in {ItBitName, BTCCName}, p \in Pairs : FetchTicker(Only, e, p)
    \/ \E e \in {ItBitName, BTCCName}, p \in Pairs : UpdateTicker(Only, e, p)
    \/ \E e \in {GeminiName, BTCCName} : FetchOrderbook(Only, e, BTCUSD)
    \/ \E e \in {GeminiName, BTCCName} : UpdateOrderbook(Only, e, BTCUSD)
    \/ \E r \in Responses : UpdateTickerResponse(Only, r)
    \/ \E r \in Responses : UpdateOrderbookResponse(Only, r)
    \/ Admit(Only)
    \/ UpdateTickerReturn(Only)
    \/ UpdateOrderbookReturn(Only)
    \/ Return(Only)
    \/ Tick

SpecSeq == Init /\ [][NextSeq]_vars

\* two callers on Gemini's dispatcher: public ticker refreshes and private
\* balance queries
NextLimit ==
    \/ \E c \in Callers : UpdateTicker(c, GeminiName, BTCUSD)
    \/ \E c \in Callers : GetExchangeAccountInfo(c, GeminiName)
    \/ \E c \in Callers : Admit(c)
    \/ \E c \in Callers, r \in Responses : UpdateTickerResponse(c, r)
    \/ \E c \in Callers : UpdateTickerReturn(c)
    \/ \E c \in Callers, r \in Responses : AccountInfoResponse(c, r)
    \/ \E c \in Callers : Return(c)
    \/ Tick

SpecLimit == Init /\ [][NextLimit]_vars

\* two callers that keep refreshing one Gemini ticker, all of one class on
\* one dispatcher
NextFair ==
    \/ \E c \in Callers : UpdateTicker(c, GeminiName, BTCUSD)
    \/ \E c \in Callers : Admit(c)
    \/ \E c \in Callers, r \in Responses : UpdateTickerResponse(c, r)
    \/ \E c \in Callers : UpdateTickerReturn(c)
    \/ \E c \in Callers : Return(c)
    \/ Tick

\* time passes, and a caller that finds a slot free again and again gets
\* one in the end (the scheduler does not pass it over forever)
Fairness ==
    /\ WF_vars(Tick)
    /\ \A c \in Callers : SF_vars(Admit(c))

SpecFair == Init /\ [][NextFair]_vars /\ Fairness

\* two callers that keep refreshing one Gemini ticker, with or without a
\* deadline on the call
NextDeadline ==
    \/ \E c \in Callers, d \in 1..MaxDeadline : SetDeadline(c, d)
    \/ \E c \in Callers : UpdateTicker(c, GeminiName, BTCUSD)
    \/ \E c \in Callers : Admit(c)
    \/ \E c \in Callers : AdmitTimeout(c)
    \/ \E c \in Callers, r \in {Fail, 1} : UpdateTickerResponse(c, r)
    \/ \E c \in Callers : UpdateTickerReturn(c)
    \/ \E c \in Callers : Return(c)
    \/ Tick

SpecDeadline == Init /\ [][NextDeadline]_vars /\ Fairness

\* two callers of FetchTicker on one Gemini ticker, with or without a
\* deadline on the call
NextCancel ==
    \/ \E c \in Callers, d \in 1..MaxDeadline : SetDeadline(c, d)
    \/ \E c \in Callers : FetchTicker(c, GeminiName, BTCUSD)
    \/ \E c \in Callers : Admit(c)
    \/ \E c \in Callers : AdmitTimeout(c)
    \/ \E c \in Callers, r \in Responses : UpdateTickerResponse(c, r)
    \/ \E c \in Callers : UpdateTickerReturn(c)
    \/ \E c \in Callers : Return(c)
    \/ Tick

SpecCancel == Init /\ [][NextCancel]_vars

\* the capability model: masks are set, decoded and encoded again
NextMask ==
    \/ \E m \in Masks : SetMask(m)
    \/ DecodeMask
    \/ EncodeLabels

SpecMask == Init /\ [][NextMask]_vars

\* two callers of the order and funds operations of the four drivers, beside
\* refreshes of one Gemini ticker
NextOrders ==
    \/ \E c \in Callers, op \in UnimplementedOps, e \in Exchanges :
          NotYetImplemented(c, op, e, BTCUSD)
    \/ \E c \in Callers : UpdateTicker(c, GeminiName, BTCUSD)
    \/ \E c \in Callers : Admit(c)
    \/ \E c \in Callers, r \in {Fail, 1} : UpdateTickerResponse(c, r)
    \/ \E c \in Callers : UpdateTickerReturn(c)
    \/ \E c \in Callers : Return(c)
    \/ Tick

SpecOrders == Init /\ [][NextOrders]_vars

\* one caller refreshing an order book of Gemini, whose venue sends numbers
\* (as Bitstamp's does), and one of ItBit, whose venue sends strings
NextBooks ==
    \/ \E e \in {GeminiName, ItBitName} :
          UpdateOrderbook(Only, e, BTCUSD)
    \/ Admit(Only)
    \/ \E r \in Responses : UpdateOrderbookResponse(Only, r)
    \/ UpdateOrderbookReturn(Only)
    \/ Return(Only)
    \/ Tick

SpecBooks == Init /\ [][NextBooks]_vars

\* one caller refreshing one order book of ItBit, whose venue now and then
\* sends a level with a field that is no number
NextMalformed ==
    \/ UpdateOrderbook(Only, ItBitName, BTCUSD)
    \/ Admit(Only)
    \/ \E r \in Responses : UpdateOrderbookResponse(Only, r)
    \/ \E r \in Values : \E g \in Garbles(ItBitBookResponse(r)) :
          UpdateOrderbookResponseMalformed(Only, r, g)
    \/ UpdateOrderbookReturn(Only)
    \/ Return(Only)
    \/ Tick

SpecMalformed == Init /\ [][NextMalformed]_vars

\* two callers of BTCC's market-data and account operations, while BTCC's
\* feed fills the stores and Gemini's ticker is refreshed over REST
NextBTCC ==
    \/ \E c \in Callers : FetchTicker(c, BTCCName, BTCUSD)
    \/ \E c \in Callers : UpdateTicker(c, BTCCName, BTCUSD)
    \/ \E c \in Callers : FetchOrderbook(c, BTCCName, BTCUSD)
    \/ \E c \in Callers : UpdateOrderbook(c, BTCCName, BTCUSD)
    \/ \E c \in Callers : GetExchangeAccountInfo(c, BTCCName)
    \/ \E c \in Callers : GetExchangeFundTransferHistory(c, BTCCName)
    \/ \E c \in Callers : GetExchangeHistory(c, BTCCName, BTCUSD)
    \/ \E v \in Values : FeedTicker(BTCUSD, v)
    \/ \E v \in Values : FeedOrderbook(BTCUSD, v)
    \/ \E c \in Callers : UpdateTicker(c, GeminiName, BTCUSD)
    \/ \E c \in Callers : Admit(c)
    \/ \E c \in Callers, r \in {Fail, 1} : UpdateTickerResponse(c, r)
    \/ \E c \in Callers : UpdateTickerReturn(c)
    \/ \E c \in Callers : Return(c)
    \/ Tick

SpecBTCC == Init /\ [][NextBTCC]_vars

\* the application starts ItBit, Bitstamp and BTCC, each once, after BTCC
\* was set up with CNY or USD pairs
NextStart ==
    \/ \E cfg \in ExchangeConfigs : \E ok \in BOOLEAN :
          /\ cfg.Enabled /\ ~cfg.UseSandbox /\ cfg.Websocket
          /\ thread[BTCCName] = "none"
          /\ Setup(BTCCName, cfg, ok)
    \/ \E e \in {ItBitName, BitstampName, BTCCName} : Start(e)
    \/ \E e \in {ItBitName, BitstampName, BTCCName} : StartGo(e)
    \/ \E e \in {ItBitName, BTCCName}, ok \in BOOLEAN : Run(e, ok)
    \/ RunRequest(BitstampName)
    \/ RunAdmit(BitstampName)
    \/ \E r \in {Fail, 1} : RunResponse(BitstampName, r)
    \/ \E e \in {ItBitName, BitstampName, BTCCName} : Done(e)
    \/ Tick

SpecStart == Init /\ [][NextStart]_vars

\* the four drivers are set up, again and again, with every configuration
\* of USD pairs
NextSetup ==
    \E e \in Exchanges, cfg \in ExchangeConfigs, ok \in BOOLEAN :
        /\ cfg.EnabledPairs = {"BTCUSD"}
        /\ Setup(e, cfg, ok)

SpecSetup == Init /\ [][NextSetup]_vars

\* one caller refreshing ItBit's tickers of two pairs and its order book of
\* one
NextFrame ==
    \/ \E p \in Pairs : UpdateTicker(Only, ItBitName, p)
    \/ UpdateOrderbook(Only, ItBitName, BTCUSD)
    \/ Admit(Only)
    \/ \E r \in Responses : UpdateTickerResponse(Only, r)
    \/ \E r \in Responses : UpdateOrderbookResponse(Only, r)
    \/ UpdateTickerReturn(Only)
    \/ UpdateOrderbookReturn(Only)
    \/ Return(Only)
    \/ Tick

SpecFrame == Init /\ [][NextFrame]_vars


(***************************************************************************)
(* Properties.                                                             *)
(***************************************************************************)
\* a caller inside a call that has not returned yet
InCall(c) == pc[c] \in {"admit", "inflight", "readback"}

\* callers c and d work on the same key of the same store
SameEntry(c, d) ==
    /\ KeyOf(c) = KeyOf(d)
    /\ (call[c].op \in TickerOps) = (call[d].op \in TickerOps)
    /\ (call[c].op \in OrderbookOps) = (call[d].op \in OrderbookOps)

\* the snapshot caller c's own upstream answer maps to
OwnSnapshot(c) ==
    IF call[c].op \in TickerOps
    THEN TickerPrice(call[c].exch, call[c].pair, TickResponse(tick[c]))
    ELSE OrderBook(call[c].exch, tick[c])

\* caller c's FetchTicker / FetchOrderbook missed the store and refreshed
Missed(c) == call[c].op \in FetchOps /\ (InCall(c) \/ (pc[c] = "done" /\ sent[c] > 0))

\* C1: callers of FetchTicker / FetchOrderbook that miss the same absent key
\* at the same time send at most one upstream request between them, and
\* those that return a snapshot return the same one.
C1_Coalesced ==
    \A c, d \in Callers :
        (c # d /\ Missed(c) /\ Missed(d) /\ SameEntry(c, d)) =>
            /\ (InCall(c) /\ InCall(d)) => sent[c] + sent[d] <= 1
            /\ (pc[c] = "done" /\ pc[d] = "done" /\ ret[c].err = Nil /\ ret[d].err = Nil)
                   => ret[c].val = ret[d].val

\* C7: a FetchTicker / FetchOrderbook that missed and refreshed returns the
\* snapshot of its own upstream answer, whatever other writers do.
C7_ReturnsOwnFetch ==
    \A c \in Callers :
        (pc[c] = "done" /\ Missed(c) /\ ret[c].err = Nil) => ret[c].val = OwnSnapshot(c)

\* caller c's call wrote the store: it has its upstream answer
Wrote(c) == call[c].op \in TickerOps \cup OrderbookOps /\ tick[c] # 0

\* what a read of caller c's key returns now
ReadOf(c) ==
    IF call[c].op \in TickerOps
    THEN GetTicker(call[c].exch, call[c].pair, Spot)
    ELSE GetOrderbook(call[c].exch, call[c].pair, Spot)

\* C6: after a caller's write to key k, as long as no other caller has
\* written k, a read of k yields exactly the snapshot written, and the read
\* back of the refresh returns it, whatever is written to other keys
\* meanwhile; every stored snapshot is one whole venue answer.
C6_PutThenGet ==
    /\ \A c \in Callers :
          /\ (pc[c] = "readback" /\ ~raced[c]) =>
                 ReadOf(c) = [val |-> OwnSnapshot(c), err |-> Nil]
          /\ (pc[c] = "done" /\ Wrote(c) /\ ~raced[c]) =>
                 ret[c] = [val |-> OwnSnapshot(c), err |-> Nil]
    /\ \A k \in DOMAIN Tickers :
          \E v \in Values : Tickers[k] = TickerPrice(k[1], k[2], TickResponse(v))
    /\ \A k \in DOMAIN Orderbooks :
          \E v \in Values : Orderbooks[k] = OrderBook(k[1], v)

\* a refresh has returned its own snapshot while the other caller wrote
\* another key with another market state
C6_Witness ==
    \E c, d \in Callers :
        /\ c # d
        /\ pc[c] = "done" /\ Wrote(c) /\ ~raced[c]
        /\ ret[c] = [val |-> OwnSnapshot(c), err |-> Nil]
        /\ pc[d] \in {"readback", "done"} /\ Wrote(d)
        /\ KeyOf(d) # KeyOf(c) /\ tick[d] # tick[c]

\* the store a call reads and writes
StoreOf(op) == IF op \in TickerOps THEN Tickers ELSE Orderbooks

\* C3 (state part): in a sequential run, a FetchTicker / FetchOrderbook on
\* a driver with REST that returned without error either missed, sent
\* exactly one upstream request, stored its snapshot and returned it, or
\* hit and returned the stored snapshot without any upstream request; a
\* miss sends exactly one request also when the venue fails.
C3_Returned ==
    (pc[Only] = "done" /\ call[Only].op \in FetchOps /\ SupportsREST(call[Only].exch)) =>
        /\ sent[Only] \in {0, 1}
        /\ ret[Only].err = Nil =>
             /\ KeyOf(Only) \in DOMAIN StoreOf(call[Only].op)
             /\ ret[Only].val = StoreOf(call[Only].op)[KeyOf(Only)]
             /\ sent[Only] = 1 => ret[Only].val = OwnSnapshot(Only)
        /\ ret[Only].err # Nil => (sent[Only] = 1 /\ tick[Only] = 0)

\* C3 (step part): a FetchTicker / FetchOrderbook on a key that is present
\* returns the stored snapshot at once, sends nothing and writes nothing; on
\* a key that is absent it goes on to the upstream request.
C3_Step ==
    (pc[Only] = "idle" /\ pc'[Only] # "idle" /\ call'[Only].op \in FetchOps
        /\ SupportsREST(call'[Only].exch)) =>
        IF Key(call'[Only].exch, call'[Only].pair, Spot) \in DOMAIN StoreOf(call'[Only].op)
        THEN /\ pc'[Only] = "done"
             /\ ret'[Only] =
                  [val |-> StoreOf(call'[Only].op)[Key(call'[Only].exch, call'[Only].pair, Spot)],
                   err |-> Nil]
             /\ sent'[Only] = 0
             /\ UNCHANGED <<Tickers, Orderbooks>>
        ELSE pc'[Only] = "admit"

\* C3: the sequential population scenario of FetchTicker / FetchOrderbook.
C3_SequentialFetch == [](C3_Returned) /\ [][C3_Step]_vars

\* a later FetchTicker returned the stored snapshot without a request
C3_Witness ==
    /\ pc[Only] = "done" /\ call[Only].op = "FetchTicker" /\ sent[Only] = 0
    /\ ret[Only].err = Nil
    /\ ret[Only].val = Tickers[KeyOf(Only)]

\* C4: a step in which a refresh fails leaves both stores exactly as they
\* were: an absent entry stays absent, a present one keeps its snapshot.
C4_FailureKeepsStores ==
    [][\A c \in Callers :
          (pc[c] = "inflight" /\ pc'[c] = "done" /\ ret'[c].err # Nil) =>
              (Tickers' = Tickers /\ Orderbooks' = Orderbooks)]_vars

\* a refresh of a key that holds a snapshot has failed, and one of an absent
\* key of the other store has failed
C4_Witness ==
    \E c, d \in Callers :
        /\ pc[c] = "done" /\ ret[c].err = ErrUpstream /\ call[c].op = "UpdateTicker"
        /\ KeyOf(c) \in DOMAIN Tickers
        /\ pc[d] = "done" /\ ret[d].err = ErrUpstream /\ call[d].op = "FetchOrderbook"
        /\ KeyOf(d) \notin DOMAIN Orderbooks

\* C5: a call whose upstream request failed returns that error, and the
\* read back of a refresh returns whatever error the store's read gives; a
\* call that returns no error has hit the store or had its upstream answer.
C5_ErrorsSurface ==
    /\ [][\A c \in Callers :
            /\ (pc[c] = "inflight" /\ pc'[c] # "inflight" /\ tick'[c] = 0) =>
                   (pc'[c] = "done" /\ ret'[c].err = ErrUpstream)
            /\ (pc[c] = "readback" /\ pc'[c] # "readback") =>
                   (pc'[c] = "done" /\ ret'[c].err = ReadOf(c).err)]_vars
    /\ [](\A c \in Callers :
            (pc[c] = "done" /\ ret[c].err = Nil) => (sent[c] = 0 \/ tick[c] # 0))

\* both kinds of refresh have returned the venue's error
C5_Witness ==
    \E c, d \in Callers :
        /\ pc[c] = "done" /\ ret[c].err = ErrUpstream /\ call[c].op \in TickerOps
        /\ pc[d] = "done" /\ ret[d].err = ErrUpstream /\ call[d].op \in OrderbookOps

\* the (exchange, class) of caller c's upstream request
ClassKey(c) == <<call[c].exch, ClassOf(call[c].op)>>

\* the number of calls of (exchange, class) ec admitted since the current
\* window of its limiter began, counted from the admission log
AdmittedInWindow(ec) ==
    Cardinality({i \in 1..Len(admitLog[ec]) :
                    admitLog[ec][i] <= limit[LimiterOf(ec[1], ec[2])].age})

\* C2: for every (exchange, class), the calls admitted within one window
\* are at most MaxRate, and a caller that asks when MaxRate calls were
\* admitted in the running window is not admitted before the window is over.
C2_RateLimited ==
    /\ \A ec \in Limiters : AdmittedInWindow(ec) <= MaxRate
    /\ \A c \in Callers :
          (pc[c] = "admit" /\ ~WindowOver(LimiterFor(c))
              /\ AdmittedInWindow(ClassKey(c)) >= MaxRate) => ~ENABLED Admit(c)

\* a caller waits for admission while MaxRate calls were admitted in the
\* running window
C2_Witness ==
    \E c \in Callers :
        /\ pc[c] = "admit"
        /\ ~WindowOver(LimiterFor(c))
        /\ AdmittedInWindow(ClassKey(c)) = MaxRate
        /\ ~ENABLED Admit(c)

\* C8 (step part): an admission of a call of one (exchange, class) leaves
\* the limiter of every other (exchange, class) as it was.
C8_Step ==
    \A c \in Callers :
        (pc[c] = "admit" /\ pc'[c] = "inflight") =>
            \A ec \in Limiters :
                ec # ClassKey(c) =>
                    limit'[LimiterOf(ec[1], ec[2])] = limit[LimiterOf(ec[1], ec[2])]

\* C8 (state part): a caller whose own (exchange, class) had fewer than
\* MaxRate admissions during the last Window ticks is admitted without
\* waiting, whatever was admitted for the other class or other exchanges.
C8_OwnBudget ==
    \A c \in Callers :
        (pc[c] = "admit" /\ Len(admitLog[ClassKey(c)]) < MaxRate) => ENABLED Admit(c)

\* C8: rate-limit budgets are independent per (exchange, class).
C8_IndependentBudgets == [](C8_OwnBudget) /\ [][C8_Step]_vars

\* an authenticated call is in flight, admitted in this tick, while the
\* unauthenticated budget of the same exchange is used up and an
\* unauthenticated caller waits
C8_Witness ==
    \E c, d \in Callers :
        /\ pc[c] = "inflight" /\ ClassOf(call[c].op) = "auth"
        /\ admitLog[ClassKey(c)] # <<>> /\ limit[LimiterFor(c)].age = 0
        /\ pc[d] = "admit" /\ ClassKey(d) = <<call[c].exch, "unauth">>
        /\ ~HasSlot(LimiterFor(d))

\* C9: while the upstream request of caller c is in flight, every step of
\* another caller on another key is enabled: it can begin a FetchTicker or
\* UpdateTicker on any other key, and a call under way on another key can
\* take its write and its read back; its admission waits for nothing but a
\* slot of its limiter.
C9_NoBlocking ==
    \A c, d \in Callers :
        (c # d /\ pc[c] = "inflight") =>
            /\ pc[d] = "idle" =>
                 \A e \in Exchanges, p \in Pairs :
                     Key(e, p, Spot) # KeyOf(c) =>
                         /\ ENABLED FetchTicker(d, e, p)
                         /\ ENABLED UpdateTicker(d, e, p)
                         /\ ENABLED FetchOrderbook(d, e, p)
                         /\ ENABLED UpdateOrderbook(d, e, p)
            /\ (pc[d] = "admit" /\ KeyOf(d) # KeyOf(c) /\ HasSlot(LimiterFor(d))) =>
                 ENABLED Admit(d)
            /\ (pc[d] = "inflight" /\ KeyOf(d) # KeyOf(c)) =>
                 \A r \in Responses :
                     IF call[d].op \in TickerOps
                     THEN ENABLED UpdateTickerResponse(d, r)
                     ELSE ENABLED UpdateOrderbookResponse(d, r)
            /\ (pc[d] = "readback" /\ KeyOf(d) # KeyOf(c)) =>
                 IF call[d].op \in TickerOps
                 THEN ENABLED UpdateTickerReturn(d)
                 ELSE ENABLED UpdateOrderbookReturn(d)

\* a refresh of another key has written and returned while a request is
\* in flight
C9_Witness ==
    \E c, d \in Callers :
        /\ pc[c] = "inflight"
        /\ pc[d] = "done" /\ Wrote(d) /\ ret[d].err = Nil
        /\ KeyOf(d) # KeyOf(c)

TimedOut(c) == pc[c] = "done" /\ ret[c].err = ErrTimeout

\* C11 (step part): a request that leaves the wait for admission is either
\* admitted, and then it is sent, or fails with Timeout after its deadline
\* ran out, and then it is not sent and no limiter is charged.
C11_Step ==
    \A c \in Callers :
        (pc[c] = "admit" /\ pc'[c] # "admit") =>
            \/ /\ pc'[c] = "inflight"
               /\ sent'[c] = sent[c] + 1
            \/ /\ pc'[c] = "done" /\ ret'[c].err = ErrTimeout
               /\ deadline[c] = 0
               /\ sent'[c] = sent[c] /\ limit' = limit

C12_TimeoutKeepsFetch ==
    \A c \in Callers :
        (pc[c] = "done" /\ Missed(c) /\ deadline[c] = 0) =>
            /\ ret[c].err = ErrTimeout
            /\ tick[c] # 0 => KeyOf(c) \in DOMAIN StoreOf(call[c].op)
            /\ \A d \in Callers :
                  (d # c /\ pc[d] = "done" /\ Missed(d) /\ SameEntry(c, d)
                      /\ ret[d].err = Nil /\ tick[c] # 0) =>
                      ret[d].val = OwnSnapshot(c)

\* the bits that some withdrawal flag stands on
DefinedBits == UNION {WithdrawFlags[x].flag : x \in 1..Len(WithdrawFlags)}

\* C13 as claimed: every 32-bit mask, decoded and encoded again, is the
\* mask it was.
C13_RoundTripAnyMask == capPc = "encoded" => encoded = mask

\* C13 as amended: every mask whose one bits are all bits of withdrawal
\* flags, decoded and encoded again, is the mask it was.
C13_RoundTrip ==
    (capPc = "encoded" /\ mask \subseteq DefinedBits) => encoded = mask

\* Gemini's mask of three flags has been decoded to three labels and
\* encoded again
C13_Witness ==
    /\ capPc = "encoded"
    /\ mask = GetWithdrawCapabilities(GeminiName)
    /\ Len(labels) = Cardinality(mask)
    /\ encoded = mask

\* C14: a mask of zero decodes to the sentinel label alone, no mask decodes
\* to no label, and no other mask decodes to the sentinel.
C14_ZeroIsSentinel ==
    capPc \in {"decoded", "encoded"} =>
        /\ labels # <<>>
        /\ mask = NoAPIWithdrawalMethods => labels = <<NoAPIWithdrawalMethodsText>>
        /\ mask # NoAPIWithdrawalMethods =>
              \A x \in 1..Len(labels) : labels[x] # NoAPIWithdrawalMethodsText

\* BTCC's mask has been decoded to the sentinel
C14_Witness ==
    /\ capPc = "decoded"
    /\ mask = GetWithdrawCapabilities(BTCCName)
    /\ mask = NoAPIWithdrawalMethods
    /\ labels = <<NoAPIWithdrawalMethodsText>>

\* C15: the withdrawal flags are eighteen, flag number x is bit x - 1 alone,
\* and a mask supports a flag exactly when the flag's bit is set in it,
\* whatever its other bits are.
C15_IndependentBits ==
    /\ Len(WithdrawFlags) = 18
    /\ \A x \in 1..Len(WithdrawFlags) : WithdrawFlags[x].flag = {x - 1}
    /\ \A x, y \in 1..Len(WithdrawFlags) :
          x # y => BitAnd(WithdrawFlags[x].flag, WithdrawFlags[y].flag) = {}
    /\ capPc # "unset" =>
          \A x \in 1..Len(WithdrawFlags) :
              Supports(mask, WithdrawFlags[x].flag) <=> (x - 1) \in mask

\* ItBit's mask supports its two flags and no other
C15_Witness ==
    /\ capPc = "set"
    /\ mask = GetWithdrawCapabilities(ItBitName)
    /\ Supports(mask, WithdrawCryptoViaWebsiteOnly)
    /\ Supports(mask, WithdrawFiatViaWebsiteOnly)
    /\ \A x \in 1..16 : ~Supports(mask, WithdrawFlags[x].flag)

\* C16 (step part): an order or funds operation returns in the step it is
\* called in, with the error "not yet implemented", and that step leaves
\* the stores, the limiters and the requests sent as they were.
C16_Step ==
    \A c \in Callers :
        (pc[c] = "idle" /\ pc'[c] # "idle" /\ call'[c].op \in UnimplementedOps) =>
            /\ pc'[c] = "done"
            /\ ret'[c].err = ErrNotYetImplemented
            /\ Len(ret'[c].val) <= 1
            /\ UNCHANGED <<Tickers, Orderbooks, limit, admitLog, sent>>

\* C16 (state part): an idle caller can call every order and funds
\* operation of every driver whatever the other caller and the limiters are
\* at, and no such call ever waits for admission or for the venue.
C16_NeverBlocks ==
    \A c \in Callers :
        /\ pc[c] = "idle" =>
              \A op \in UnimplementedOps, e \in Exchanges, p \in Pairs :
                  ENABLED NotYetImplemented(c, op, e, p)
        /\ Pending(c) => call[c].op \notin UnimplementedOps
        /\ call[c].op \in UnimplementedOps => (pc[c] = "done" /\ sent[c] = 0)

\* C16: the order and funds operations of all four drivers return
\* Unimplemented at once.
C16_Unimplemented == [](C16_NeverBlocks) /\ [][C16_Step]_vars

\* Gemini's SubmitExchangeOrder has returned while a request to Gemini
\* waits for a slot of the limiter
C16_Witness ==
    \E c, d \in Callers :
        /\ pc[c] = "done" /\ call[c].op = "SubmitExchangeOrder"
        /\ call[c].exch = GeminiName /\ ret[c].err = ErrNotYetImplemented
        /\ pc[d] = "admit" /\ ~HasSlot(LimiterFor(d))

\* the levels of one side of a snapshot are those of the venue, one for
\* one and in the venue's order
SameSide(levels, supplied) ==
    /\ Len(levels) = Len(supplied)
    /\ \A x \in 1..Len(supplied) :
          /\ levels[x].Price = supplied[x].Price
          /\ levels[x].Amount = supplied[x].Amount

SameLevels(book, supplied) ==
    /\ SameSide(book.Bids, supplied.Bids)
    /\ SameSide(book.Asks, supplied.Asks)

\* C17 (step part): the snapshot UpdateOrderbook stores from a venue
\* response has that response's bid levels and ask levels, in the same
\* order and number.
C17_Step ==
    \A c \in Callers :
        (pc[c] = "inflight" /\ pc'[c] = "readback" /\ call[c].op \in OrderbookOps) =>
            SameLevels(Orderbooks'[KeyOf(c)], BookResponse(tick'[c]))

\* C17 (state part): every stored and every returned snapshot has the
\* levels of some venue response, in the same order and number.
C17_Stored ==
    /\ \A k \in DOMAIN Orderbooks :
          \E v \in Values : SameLevels(Orderbooks[k], BookResponse(v))
    /\ \A c \in Callers :
          (pc[c] = "done" /\ call[c].op \in OrderbookOps /\ ret[c].err = Nil) =>
              \E v \in Values : SameLevels(ret[c].val, BookResponse(v))

\* C17: an order-book snapshot keeps the venue's bid and ask levels in
\* the venue's order and number.
C17_VenueOrder == [](C17_Stored) /\ [][C17_Step]_vars

\* snapshots of Gemini and ItBit are stored, and a caller got one back
\* with more than one level a side
C17_Witness ==
    /\ \A e \in {GeminiName, ItBitName} :
          Key(e, BTCUSD, Spot) \in DOMAIN Orderbooks
    /\ \E c \in Callers :
          /\ pc[c] = "done" /\ call[c].op = "UpdateOrderbook" /\ ret[c].err = Nil
          /\ Len(ret[c].val.Bids) > 1 /\ Len(ret[c].val.Asks) > 1
          /\ ret[c].val.Bids[1] # ret[c].val.Bids[2]

\* the value a field of the snapshot must have when field g of the answer
\* was malformed: 0 for that field, the venue's number for every other
Defaulted(supplied, g, side, x, field) ==
    IF g.side = side /\ g.x = x /\ g.field = field THEN 0
    ELSE IF field = 1 THEN supplied[side][x].Price ELSE supplied[side][x].Amount

\* a snapshot with the levels of the venue, only field g defaulted
OnlyDefaulted(book, supplied, g) ==
    \A side \in {"Bids", "Asks"} :
        /\ Len(book[side]) = Len(supplied[side])
        /\ \A x \in 1..Len(supplied[side]) :
              /\ book[side][x].Price = Defaulted(supplied, g, side, x, 1)
              /\ book[side][x].Amount = Defaulted(supplied, g, side, x, 2)

\* C18 (step part): when one field of ItBit's answer is malformed the
\* refresh goes on to its write, and the stored snapshot has the answer's
\* levels with that one field 0.
C18_Step ==
    \A c \in Callers :
        (pc[c] = "inflight" /\ call[c].op \in OrderbookOps /\ pc'[c] # "inflight"
           /\ garble'[c] # NoGarble) =>
            /\ pc'[c] = "readback"
            /\ OnlyDefaulted(Orderbooks'[KeyOf(c)], BookResponse(tick'[c]), garble'[c])

\* C18 (state part): such a refresh returns without an error the snapshot
\* with the answer's levels and that one field 0.
C18_Returned ==
    \A c \in Callers :
        (pc[c] = "done" /\ garble[c] # NoGarble) =>
            /\ ret[c].err = Nil
            /\ OnlyDefaulted(ret[c].val, BookResponse(tick[c]), garble[c])

\* C18: a malformed price or amount string in ItBit's answer never aborts
\* UpdateOrderbook; only that field is defaulted.
C18_MalformedField == [](C18_Returned) /\ [][C18_Step]_vars

\* UpdateOrderbook has returned a snapshot whose second ask has price 0
\* and the venue's amount
C18_Witness ==
    \E c \in Callers :
        /\ pc[c] = "done" /\ call[c].op = "UpdateOrderbook" /\ ret[c].err = Nil
        /\ garble[c] # NoGarble
        /\ garble[c].side = "Asks" /\ garble[c].x = 2 /\ garble[c].field = 1
        /\ Len(ret[c].val.Asks) = 2
        /\ ret[c].val.Asks[2].Price = 0
        /\ ret[c].val.Asks[2].Amount = BookResponse(tick[c]).Asks[2].Amount

\* BTCC's market-data and account operations
BTCCOps ==
    {"UpdateTicker", "FetchTicker", "FetchOrderbook", "UpdateOrderbook",
     "GetExchangeAccountInfo", "GetExchangeFundTransferHistory",
     "GetExchangeHistory"}

\* the empty result of each of them
BTCCEmpty(op) ==
    CASE op \in {"UpdateTicker", "FetchTicker"} -> EmptyPrice
      [] op \in {"FetchOrderbook", "UpdateOrderbook"} -> EmptyBook
      [] op = "GetExchangeAccountInfo" -> EmptyAccountInfo
      [] OTHER -> <<>>

\* C19 (step part): a market-data or account operation of BTCC returns in
\* the step it is called in, with the error "REST NOT SUPPORTED" and the
\* empty result, and that step leaves the stores, the limiters and the
\* requests sent as they were.
C19_Step ==
    \A c \in Callers :
        (pc[c] = "idle" /\ pc'[c] # "idle" /\ call'[c].exch = BTCCName
           /\ call'[c].op \in BTCCOps) =>
            /\ pc'[c] = "done"
            /\ ret'[c].err = ErrRESTNotSupported
            /\ ret'[c].val = BTCCEmpty(call'[c].op)
            /\ UNCHANGED <<Tickers, Orderbooks, limit, admitLog, sent>>

\* C19 (state part): an idle caller can call each of them whatever the
\* stores hold, and no call to BTCC ever waits for admission or for a venue.
C19_NeverAdmitted ==
    \A c \in Callers :
        /\ pc[c] = "idle" =>
              /\ ENABLED FetchTicker(c, BTCCName, BTCUSD)
              /\ ENABLED UpdateTicker(c, BTCCName, BTCUSD)
              /\ ENABLED FetchOrderbook(c, BTCCName, BTCUSD)
              /\ ENABLED UpdateOrderbook(c, BTCCName, BTCUSD)
              /\ ENABLED GetExchangeAccountInfo(c, BTCCName)
              /\ ENABLED GetExchangeFundTransferHistory(c, BTCCName)
              /\ ENABLED GetExchangeHistory(c, BTCCName, BTCUSD)
        /\ call[c].exch = BTCCName =>
              (pc[c] = "done" /\ sent[c] = 0 /\ ret[c].err = ErrRESTNotSupported)

\* C19: every market-data and account operation of BTCC returns
\* Unsupported with an empty result, in every state of the stores.
C19_Unsupported == [](C19_NeverAdmitted) /\ [][C19_Step]_vars

\* FetchTicker of BTCC has returned the empty ticker and the error while
\* the ticker store holds a snapshot under the key asked for
C19_Witness ==
    \E c \in Callers :
        /\ pc[c] = "done" /\ call[c].op = "FetchTicker" /\ call[c].exch = BTCCName
        /\ ret[c] = [val |-> EmptyPrice, err |-> ErrRESTNotSupported]
        /\ KeyOf(c) \in DOMAIN Tickers
        /\ Key(BTCCName, BTCUSD, Spot) \in DOMAIN Orderbooks

\* the explicit refreshes
UpdateOps == {"UpdateTicker", "UpdateOrderbook"}

\* the store as it was, but for key k, which holds snapshot
Overwritten(store, k, snapshot) ==
    [j \in DOMAIN store \cup {k} |-> IF j = k THEN snapshot ELSE store[j]]

\* C20 (step part): a call of UpdateTicker or UpdateOrderbook goes on to
\* its upstream request whether or not its key is stored; a venue answer
\* without error replaces the entry of the call's key, and of no other
\* key, by the snapshot of that answer; and the stores change in no other
\* step.
C20_Step ==
    /\ \A c \in Callers :
          /\ (pc[c] = "idle" /\ pc'[c] # "idle" /\ call'[c].op \in UpdateOps) =>
                pc'[c] = "admit"
          /\ (pc[c] = "inflight" /\ pc'[c] = "readback" /\ call[c].op \in TickerOps) =>
                Tickers' = Overwritten(Tickers, KeyOf(c),
                              TickerPrice(call[c].exch, call[c].pair,
                                          TickResponse(tick'[c])))
          /\ (pc[c] = "inflight" /\ pc'[c] = "readback" /\ call[c].op \in OrderbookOps) =>
                Orderbooks' = Overwritten(Orderbooks, KeyOf(c),
                                 OrderBook(call[c].exch, tick'[c]))
    /\ Tickers' # Tickers =>
          \E c \in Callers :
              pc[c] = "inflight" /\ pc'[c] = "readback" /\ call[c].op \in TickerOps
    /\ Orderbooks' # Orderbooks =>
          \E c \in Callers :
              pc[c] = "inflight" /\ pc'[c] = "readback" /\ call[c].op \in OrderbookOps

\* C20 (state part): an explicit refresh that has returned has sent its
\* request to the venue; one that has written and not yet read back finds
\* its own snapshot in the store unless a later write replaced it.
C20_Fetched ==
    \A c \in Callers :
        /\ (pc[c] \in {"inflight", "readback", "done"} /\ call[c].op \in UpdateOps) =>
              sent[c] = 1
        /\ (pc[c] = "readback" /\ call[c].op = "UpdateTicker" /\ ~raced[c]) =>
              Tickers[KeyOf(c)] = TickerPrice(call[c].exch, call[c].pair,
                                              TickResponse(tick[c]))

\* C20: an explicit refresh always fetches and on success overwrites the
\* entry of its key; the stored snapshot is the one written last.
C20_LastWriteWins == [](C20_Fetched) /\ [][C20_Step]_vars

\* two UpdateTicker calls on one key have returned; the first got the
\* snapshot of market state 1, the second replaced it by that of state 2
C20_Witness ==
    \E c, d \in Callers :
        /\ c # d
        /\ pc[c] = "done" /\ pc[d] = "done"
        /\ call[c].op = "UpdateTicker" /\ call[d].op = "UpdateTicker"
        /\ KeyOf(c) = KeyOf(d)
        /\ ret[d].err = Nil /\ ret[c].err = Nil
        /\ ret[d].val = TickerPrice(call[d].exch, call[d].pair, TickResponse(1))
        /\ ret[c].val = TickerPrice(call[c].exch, call[c].pair, TickResponse(2))
        /\ Tickers[KeyOf(c)] = ret[c].val

\* the drivers whose goroutine was announced to the WaitGroup and has not
\* yet called wg.Done()
NotDone == {e \in Exchanges : thread[e] \in {"added", "running", "admit",
                                              "inflight", "returned"}}

\* the WaitGroup's counter is never negative and counts the started
\* drivers whose goroutine has not yet called wg.Done()
WaitGroupCounts == wg >= 0 /\ wg = Cardinality(NotDone)

\* a started driver never holds up the start of the next: wg.Add and the
\* go statement are enabled whatever the other goroutines wait for
StartNeverBlocks ==
    \A e \in {ItBitName, BitstampName, BTCCName} :
        ~exited =>
            /\ thread[e] = "none" => ENABLED Start(e)
            /\ thread[e] = "added" => ENABLED StartGo(e)

\* C21: Start runs Run once on its own goroutine without blocking, the
\* WaitGroup counts the goroutines that are not yet done, and the goroutine
\* of a started driver keeps running for the lifetime of the process: Run
\* never returns.
C21_RunsForLifetime ==
    /\ WaitGroupCounts
    /\ StartNeverBlocks
    /\ \A e \in Exchanges : thread[e] \notin {"returned", "done"}

\* store after differs from store before at most in the entry of key k
OnlyEntry(before, after, k) ==
    /\ DOMAIN after \subseteq DOMAIN before \cup {k}
    /\ \A j \in DOMAIN before : j # k => (j \in DOMAIN after /\ after[j] = before[j])

\* C22 (step part): no step of a ticker call changes the order-book store
\* or a ticker entry of another key than the call's, no step of an
\* order-book call changes the ticker store or an order-book entry of
\* another key, and the read back returns the entry of the call's key.
C22_Step ==
    \A c \in Callers :
        /\ (pc[c] # "idle" /\ call[c].op \in TickerOps) =>
              /\ Orderbooks' = Orderbooks
              /\ OnlyEntry(Tickers, Tickers', KeyOf(c))
              /\ (pc[c] = "readback" /\ pc'[c] = "done") =>
                    ret'[c] = [val |-> Tickers[KeyOf(c)], err |-> Nil]
        /\ (pc[c] # "idle" /\ call[c].op \in OrderbookOps) =>
              /\ Tickers' = Tickers
              /\ OnlyEntry(Orderbooks, Orderbooks', KeyOf(c))
              /\ (pc[c] = "readback" /\ pc'[c] = "done") =>
                    ret'[c] = [val |-> Orderbooks[KeyOf(c)], err |-> Nil]

\* C22 (state part): between its write and its read back a refresh finds
\* under its key the snapshot it wrote.
C22_WrittenKey ==
    \A c \in Callers :
        pc[c] = "readback" =>
            IF call[c].op \in TickerOps
            THEN /\ KeyOf(c) \in DOMAIN Tickers
                 /\ Tickers[KeyOf(c)] = TickerPrice(call[c].exch, call[c].pair,
                                                    TickResponse(tick[c]))
            ELSE /\ KeyOf(c) \in DOMAIN Orderbooks
                 /\ Orderbooks[KeyOf(c)] = OrderBook(call[c].exch, tick[c])

\* C22: a refresh changes at most the entry of its key in its store, and
\* reads back the key it wrote.
C22_OneEntry == [](C22_WrittenKey) /\ [][C22_Step]_vars

\* UpdateTicker of ItBit's LTCUSD has returned the snapshot of market
\* state 2 while ItBit's BTCUSD ticker still is that of state 1 and
\* ItBit's order book is stored
C22_Witness ==
    /\ pc[Only] = "done" /\ call[Only].op = "UpdateTicker"
    /\ call[Only].exch = ItBitName /\ call[Only].pair = "LTCUSD"
    /\ ret[Only] = [val |-> TickerPrice(ItBitName, "LTCUSD", TickResponse(2)),
                    err |-> Nil]
    /\ Key(ItBitName, "BTCUSD", Spot) \in DOMAIN Tickers
    /\ Tickers[Key(ItBitName, "BTCUSD", Spot)] =
          TickerPrice(ItBitName, "BTCUSD", TickResponse(1))
    /\ Key(ItBitName, "BTCUSD", Spot) \in DOMAIN Orderbooks

\* a call of Setup has been made in this step
SetupStep == lastSetup' # lastSetup \/ base' # base \/ exited' # exited

\* C23 (step part): a call of Setup with a disabled configuration changes
\* nothing but the driver's enabled flag, which it sets to false: no
\* credentials, pairs, URL or websocket setting of any driver, no limiter,
\* no capability mask; and it never ends the process.  So a step that
\* changes any of these was made with an enabled configuration.
C23_Step ==
    (SetupStep /\ ~lastSetup'.cfg.Enabled) =>
        /\ base' = [base EXCEPT ![lastSetup'.exch].Enabled = FALSE]
        /\ UNCHANGED <<limit, admitLog, capVars, exited>>

\* C23 (state part): a driver whose last Setup was disabled is disabled,
\* the capability mask of every driver is the one SetDefaults set, and a
\* sandbox URL is Gemini's alone.
C23_Defaults ==
    /\ (lastSetup # NoSetup /\ ~lastSetup.cfg.Enabled) =>
          ~base[lastSetup.exch].Enabled
    /\ \A e \in Exchanges :
          /\ base[e].APIWithdrawPermissions = APIWithdrawPermissions(e)
          /\ base[e].URL # URLDefault(e) => (e = GeminiName /\ base[e].APIKey # "")

\* C23: Setup with a disabled configuration only disables the driver; only
\* an enabled configuration is applied.
C23_DisabledOnlyDisables == [](C23_Defaults) /\ [][C23_Step]_vars

\* Gemini was just set up with a disabled sandbox configuration and is as
\* SetDefaults left it, while Bitstamp is set up and enabled
C23_Witness ==
    /\ lastSetup.exch = GeminiName
    /\ ~lastSetup.cfg.Enabled /\ lastSetup.cfg.UseSandbox /\ lastSetup.cfg.Websocket
    /\ base[GeminiName] = SetDefaults(GeminiName)
    /\ base[BitstampName].Enabled /\ base[BitstampName].Websocket
    /\ base[BitstampName].APIKey = "key"

=============================================================================
